---- MODULE Spec2Model ----
(***************************************************************************)
(* Model of the concurrent job executor of PlugsConc (internal/worker):    *)
(* Pool (pool.go), Worker (worker.go), PoolMetrics (metrics.go) and the    *)
(* Job value.  A channel is a bounded FIFO buffer with a closed flag; an   *)
(* unbuffered channel is a rendezvous between a blocked sender and a ready *)
(* receiver.  A panic that no deferred recover catches ends the whole      *)
(* process (crashed).                                                      *)
(*                                                                         *)
(* Environment: the embedder calls Run once and before any of Shutdown,    *)
(* Stop and Terminate; every job is submitted at most once.                *)
(***************************************************************************)
EXTENDS Integers, Sequences, FiniteSets, TLC

\* ---- bounds of the model ----
NumJobs == 2
MaxWorkersBound == 2
MaxBuffer == 1
MaxRetriesBound == 1
MaxDelay == 1
MaxLostCalls == 1
MaxClock == 3
MaxBuilderCalls == 3
NumDirs == 2
MaxLoads == 2
NumContents == 2
MaxHeap == 4
MaxProtocolVersion == 2
MaxRuns == 3
NumPlugins == 2

Jobs == 1..NumJobs
Workers == 1..MaxWorkersBound

\* arguments given to NewPool and to Job.WithRetry (a delay is only drawn for a
\* job that can retry)
RequestedWorkers == {0, MaxWorkersBound}
RequestedBuffers == 0..MaxBuffer
RetryConfigs == {c \in (0..MaxRetriesBound) \X (0..MaxDelay) : c[1] = 0 => c[2] = 0}

PoolRetryConfigs == {<<0, 0>>}

LifecycleOps == {"Shutdown", "Stop", "Terminate"}

\* what one invocation of the work function returns: value present, error
RetOk == [val |-> TRUE, err |-> "none"]
RetErr == [val |-> FALSE, err |-> "work"]
WorkReturns == {RetOk, RetErr}

\* further returns of a work function: a second error, a value together with an
\* error, and neither of them
RetErrB == [val |-> FALSE, err |-> "workB"]
RetBoth == [val |-> TRUE, err |-> "work"]
RetNil == [val |-> FALSE, err |-> "none"]
AnyReturns == WorkReturns \cup {RetErrB, RetBoth, RetNil}
WorkErrors == {"work", "workB"}
NoRes == [val |-> FALSE, err |-> "none"]
CtxErrRes == [val |-> FALSE, err |-> "ctx"]
PanicRes == [val |-> FALSE, err |-> "panic"]

VARIABLES
    reqWorkers,     \* the maxWorkers argument given to NewPool
    reqBuffer,      \* the buffer argument given to NewPool
    maxWorkers,     \* Pool.maxWorkers
    buffer,         \* capacity of the jobs, results and metrics channels
    started,        \* Run has been called
    closed,         \* Pool.closed
    wg,             \* Pool.wg counter
    pm,             \* Pool.metrics
    jobsBuf, jobsClosed,        \* Pool.jobs
    resultsBuf, resultsClosed,  \* Pool.results
    metricsBuf, metricsClosed,  \* Pool.metricsChannel
    wpc, wjob, attempt, wres,   \* per worker: position, held jobs, attempt, result
    subPc,          \* per job: position of its Submit call
    jMaxRetries, jRetryDelay,   \* Job.MaxRetries, Job.RetryDelay
    jStamped,       \* Job.Metrics.SubmittedAt is set
    jCanceled,      \* Job.Ctx is done
    invocations,    \* per job: number of calls of Job.Execute
    lcOp, lcPc,     \* the lifecycle call that won the closed flag: operation, position
    lostCalls,      \* number of lifecycle calls that found the closed flag set
    delivered,      \* per job: JobResults received by the results consumer
    lastRes,        \* per job: value and error of the last JobResult received
    crashed,        \* an unrecovered panic ended the process
    now,            \* the reading of the clock (time.Now())
    jm,             \* per job: Job.Metrics, the stamps (0 is the zero time)
    jRetryCount,    \* per job: the retry count the worker records
    lastRet,        \* per job: what the most recent call of Job.Execute returned
    builderCalls,   \* a job under construction: the builder calls made on it
    jobCancel,      \* its Cancel handle: the call that installed it (0 is nil)
    jobCancelCause, \* its CancelWithCause handle: the call that installed it (0 is nil)
    batch,          \* the jobs given to SubmitBatch, in order
    batchPos,       \* SubmitBatch: position of the loop in the batch
    batchSubmitted, batchFailures,  \* SubmitBatch: submitted, failures
    batchErrs,      \* SubmitBatch: errs is not nil
    fsRootOk,       \* the plugins root can be opened
    fsParent,       \* the directory each directory lies in (0: the plugins root itself)
    fsDirs,         \* the directories of the plugins root: what each one holds
    maps,           \* the map objects: Manifests.entries and the clone a reader holds
    snapRef,        \* the map object the reader got from GetManifests
    lErrs,          \* the LoaderErrors of the Load in progress: key -> error
    loadPc, loadPos,    \* PluginLoader.Load: position, directory the walk has reached
    loadsDone,      \* what each Load that returned has seen and produced
    preCatalog,     \* the catalog when the Load in progress began
    snapDuring,     \* the maps GetManifests returned while the Load was in progress
    regPanicked,    \* a nil dereference ended the process
    heap,           \* the ManifestEntry objects allocated so far; a pointer is an index
    catPtr,         \* Manifests.entries as pointers: the entry of each key (0: no key)
    held,           \* the *ManifestEntry a consumer holds and what it read from it
    mf,             \* a Manifest: its handshake, format and security fields
    hcOut,          \* what Handshake.ToConfig returned
    ldOut,          \* what Manifest.ToLaunchDetails returned
    csFile,         \* the checksum sidecar file given to LoadSHA256
    csOut,          \* what LoadSHA256 returned
    pstate,         \* the PluginState of every plugin
    caps,           \* the Capabilities of a plugin
    decision        \* the last is_allowed query and its answer

cfgVars == <<reqWorkers, reqBuffer, maxWorkers, buffer>>
jobsCh == <<jobsBuf, jobsClosed>>
resultsCh == <<resultsBuf, resultsClosed>>
metricsCh == <<metricsBuf, metricsClosed>>
chanVars == <<jobsCh, resultsCh, metricsCh>>
workerVars == <<wpc, wjob, attempt, wres>>
subVars == <<subPc, jMaxRetries, jRetryDelay, jStamped>>
lcVars == <<lcOp, lcPc, lostCalls>>
consVars == <<delivered, lastRes>>
timeVars == <<now, jm>>
retryVars == <<jRetryCount, lastRet>>
poolVars == <<cfgVars, started, closed, wg, pm, chanVars, workerVars, subVars, jCanceled,
              invocations, lcVars, consVars, crashed, timeVars, retryVars>>
buildVars == <<builderCalls, jobCancel, jobCancelCause>>
batchVars == <<batch, batchPos, batchSubmitted, batchFailures, batchErrs>>
fsVars == <<fsRootOk, fsParent, fsDirs>>
loadVars == <<lErrs, loadPc, loadPos, loadsDone, preCatalog>>
readerVars == <<snapRef, snapDuring>>
entVars == <<heap, catPtr, held>>
regVars == <<fsVars, maps, loadVars, readerVars, regPanicked, entVars>>
launchVars == <<mf, hcOut, ldOut>>
csVars == <<csFile, csOut>>
capVars == <<caps, decision>>
extVars == <<launchVars, csVars, pstate, capVars>>
auxVars == <<buildVars, batchVars, regVars, extVars>>
vars == <<poolVars, auxVars>>

\* NewJobMetrics: no stamp set
NewJobMetrics == [submittedAt |-> 0, startedAt |-> 0, finishedAt |-> 0]

\* Job.SetSubmittedAt, Job.SetStartedAt, Job.SetFinishedAt: the stamp is time.Now()
SetSubmittedAt(j) == [jm EXCEPT ![j].submittedAt = now]
SetStartedAt(j) == [jm EXCEPT ![j].startedAt = now]
SetFinishedAt(j) == [jm EXCEPT ![j].finishedAt = now]

\* NewPool: maxWorkers below 1 becomes 1
NewPoolMaxWorkers(mw) == IF mw < 1 THEN 1 ELSE mw

\* mutant: a negative buffer argument is taken for its size
NewPoolBuffer_Abs(b) == IF b < 0 THEN 0 - b ELSE b

\* NewPool: buffer below 1 gives unbuffered channels
NewPoolBuffer(b) == IF b < 1 THEN 0 ELSE b

\* NewPoolMetrics: all counters zero, no stamp set (a stamp of 0 is the zero time)
NewPoolMetrics ==
    [submissions |-> 0, submissionFailures |-> 0, succeeded |-> 0, failed |-> 0,
     startedSet |-> FALSE, stoppedSet |-> FALSE, completedSet |-> FALSE, durationSet |-> FALSE,
     startedAt |-> 0, stoppedAt |-> 0, completedAt |-> 0]

\* The state after NewPool(reqWorkers, b) and after the jobs were built with
\* NewJob(...).WithRetry(max, delay), with the arguments drawn from the given sets
InitPool(workerArgs, bufferArgs, retryArgs) ==
    /\ reqWorkers \in workerArgs
    /\ maxWorkers = NewPoolMaxWorkers(reqWorkers)
    /\ reqBuffer \in bufferArgs
    /\ buffer = NewPoolBuffer(reqBuffer)
    /\ \E cfg \in [Jobs -> retryArgs] :
         /\ jMaxRetries = [j \in Jobs |-> cfg[j][1]]
         /\ jRetryDelay = [j \in Jobs |-> cfg[j][2]]
    /\ started = FALSE
    /\ closed = FALSE
    /\ wg = 0
    /\ pm = NewPoolMetrics
    /\ jobsBuf = <<>> /\ jobsClosed = FALSE
    /\ resultsBuf = <<>> /\ resultsClosed = FALSE
    /\ metricsBuf = <<>> /\ metricsClosed = FALSE
    /\ wpc = [w \in Workers |-> "none"]
    /\ wjob = [w \in Workers |-> {}]
    /\ attempt = [w \in Workers |-> 0]
    /\ wres = [w \in Workers |-> NoRes]
    /\ subPc = [j \in Jobs |-> "new"]
    /\ jStamped = [j \in Jobs |-> FALSE]
    /\ jCanceled = [j \in Jobs |-> FALSE]
    /\ invocations = [j \in Jobs |-> 0]
    /\ lcOp = "none"
    /\ lcPc = "idle"
    /\ lostCalls = 0
    /\ delivered = [j \in Jobs |-> 0]
    /\ lastRes = [j \in Jobs |-> NoRes]
    /\ crashed = FALSE
    /\ now = 1
    /\ jm = [j \in Jobs |-> NewJobMetrics]
    /\ jRetryCount = [j \in Jobs |-> 0]
    /\ lastRet = [j \in Jobs |-> NoRes]

\* a job fresh from NewJob: no handle
InitBuild ==
    /\ builderCalls = <<>>
    /\ jobCancel = 0
    /\ jobCancelCause = 0

\* SubmitBatch called with batch b: submitted := 0; failures := 0; var errs error
InitBatch(b) ==
    /\ batch = b
    /\ batchPos = 1
    /\ batchSubmitted = 0
    /\ batchFailures = 0
    /\ batchErrs = FALSE

\* ---- the plugins root and the registry ----

Dirs == 1..NumDirs

\* what a directory of the plugins root holds: nothing a loader can read, no
\* manifest, an empty manifest file, malformed YAML, a manifest whose entrypoint
\* is not an executable, or a well-formed package with manifest bytes c
DirKinds == {"unreadable", "noManifest", "emptyManifest", "malformed", "noEntrypoint", "valid"}
DirStates ==
    {[kind |-> "absent", bytes |-> 0]}
      \cup {[kind |-> k, bytes |-> 0] : k \in DirKinds \ {"valid"}}
      \cup {[kind |-> "valid", bytes |-> c] : c \in 1..NumContents}

\* a key of a map without an entry, and NewManifestEntry(manifest, entrypoint, hash)
\* (manifest 0 is nil, entrypoint 0 and hash 0 are "")
NoEntry == [present |-> FALSE, manifest |-> 0, entrypoint |-> 0, hash |-> 0]
NewManifestEntry(manifest, entrypoint, hash) ==
    [present |-> TRUE, manifest |-> manifest, entrypoint |-> entrypoint, hash |-> hash]

\* NewManifests: an empty map
NewManifests == [d \in Dirs |-> NoEntry]
Keys(m) == {d \in Dirs : m[d].present}

\* where the directories lie: fs.WalkDir visits them in lexical order, a
\* directory before the directories inside it; in a flat root all are immediate
\* subdirectories of the plugins root
FlatRoot == [d \in Dirs |-> 0]
Trees == {f \in [Dirs -> {0} \cup Dirs] : \A d \in Dirs : f[d] < d}

\* a consumer that holds no entry (ptr 0 is nil)
NoHeld == [ptr |-> 0, was |-> NoEntry]

\* NewPluginLoader: an empty catalog, no Load made
InitLoaderState ==
    /\ maps = [catalog |-> NewManifests, clone |-> NewManifests]
    /\ snapRef = "none"
    /\ lErrs = [k \in {} |-> ""]
    /\ loadPc = "idle"
    /\ loadPos = 1
    /\ loadsDone = <<>>
    /\ preCatalog = NewManifests
    /\ snapDuring = {}
    /\ regPanicked = FALSE
    /\ heap = <<>>
    /\ catPtr = [d \in Dirs |-> 0]
    /\ held = NoHeld

\* NewPluginLoader over a plugins root in any state; a directory that exists
\* lies in one that exists
InitRegistryTree(dirStates, trees) ==
    /\ fsRootOk \in BOOLEAN
    /\ fsParent \in trees
    /\ fsDirs \in [Dirs -> dirStates]
    /\ \A d \in Dirs : (fsParent[d] # 0 /\ fsDirs[d].kind # "absent") =>
                           fsDirs[fsParent[d]].kind # "absent"
    /\ InitLoaderState

\* NewPluginLoader over a flat plugins root in any state
InitRegistry(dirStates) == InitRegistryTree(dirStates, {FlatRoot})

\* ---- manifests and launch details ----

\* the handshake section of a manifest: ProtocolVersion is a uint
Handshakes ==
    [ProtocolVersion : 0..MaxProtocolVersion, MagicCookieKey : {"", "KEY"},
     MagicCookieValue : {"", "VALUE"}]

\* format strings a manifest can carry: the two of the lookup, none, and unknown ones
FormatStrings == {"rpc", "grpc", "", "GRPC", "http"}

ManifestValues == [Handshake : Handshakes, Format : FormatStrings, AutoMTLS : BOOLEAN]

\* the zero values of plugin.HandshakeConfig and of the manifest
ZeroHandshakeConfig == [ProtocolVersion |-> 0, MagicCookieKey |-> "", MagicCookieValue |-> ""]
ZeroManifest == [Handshake |-> ZeroHandshakeConfig, Format |-> "", AutoMTLS |-> FALSE]

\* no call made yet, and a nil *PluginLaunchDetails
NoConfig == [called |-> FALSE, nil |-> TRUE, cfg |-> ZeroHandshakeConfig, err |-> ""]
NoDetails == [called |-> FALSE, nil |-> TRUE, handshakeConfig |-> ZeroHandshakeConfig,
              allowedProtocols |-> <<>>, AutoMTLS |-> FALSE]

InitLaunch(manifests) ==
    /\ mf \in manifests
    /\ hcOut = NoConfig
    /\ ldOut = NoDetails

\* ---- checksum sidecar files ----

\* a file is a sequence of runs: white space, or a word of some length made of
\* hex digits only or not; two runs of the same sort never touch
WordLens == {2, 63, 64, 66}
Words == [space : {FALSE}, len : WordLens, hex : BOOLEAN]
SpaceRun == [space |-> TRUE, len |-> 1, hex |-> FALSE]
Runs == Words \cup {SpaceRun}
RunSeqs ==
    {r \in UNION {[1..n -> Runs] : n \in 0..MaxRuns} :
        \A i \in 1..(Len(r) - 1) : r[i].space # r[i + 1].space}
SidecarFiles == [readable : {TRUE}, runs : RunSeqs] \cup {[readable |-> FALSE, runs |-> <<>>]}

NoSecureConfig == [called |-> FALSE, nil |-> TRUE, checksumLen |-> 0, err |-> ""]

InitChecksum(files) ==
    /\ csFile \in files
    /\ csOut = NoSecureConfig

\* ---- plugin states ----

Plugins == 1..NumPlugins

\* PluginState: the lifecycle states count up from PluginStateUnknown, the
\* failure states are the codes from PluginMissingManifest up
PluginStateUnknown == 0
PluginDirectoryDiscovered == 1
PluginDirectoryValidated == 3
PluginManifestValidated == 5
PluginLaunching == 7
PluginRunning == 8
PluginStopped == 9
PluginMissingManifest == 100
PluginInvalidManifest == 103
PluginInvalidLaunchDetails == 104
PluginBadChecksum == 107
PluginFailedToLaunch == 108
PluginFailedToStop == 109
PluginStoppedUnexpectedly == 110
LifecycleStates == PluginStateUnknown..PluginStopped
FailureStates == PluginMissingManifest..PluginStoppedUnexpectedly
IsFailure(st) == st \in FailureStates

\* every plugin starts Unknown; recovered: it was taken out of a failure state
InitPlugins == pstate = [p \in Plugins |-> [state |-> PluginStateUnknown, recovered |-> FALSE]]

\* ---- capabilities ----

\* Capabilities: Filesystem and Process are slices, Network a pointer to the
\* egress and ingress rules (nil when the section is absent)
EmptyCapabilities == [Filesystem |-> {}, HasNetwork |-> FALSE, Egress |-> {}, Ingress |-> {}, Process |-> {}]

\* paths are sequences of components
FsPaths == {<<"data">>, <<"data", "in">>, <<"etc">>}
FsGrants ==
    {[Path |-> <<"data">>, Permissions |-> {"read"}, Recursive |-> FALSE],
     [Path |-> <<"data">>, Permissions |-> {"read", "write"}, Recursive |-> TRUE]}
EgressRules == {[Protocol |-> "tcp", Hosts |-> {"api"}, Ports |-> {443}]}
IngressRules == {[Protocol |-> "tcp", Ports |-> {8080}, AllowedOrigins |-> {"lan"}]}
ProcessGrants ==
    {[Rule |-> "exec", Command |-> "ls", Args |-> "*", Scopes |-> {}],
     [Rule |-> "kill", Command |-> "", Args |-> "", Scopes |-> {"children"}]}

CapabilityValues ==
    {[Filesystem |-> f, HasNetwork |-> n[1], Egress |-> n[2], Ingress |-> n[3], Process |-> pr] :
        f \in {{}} \cup {{g} : g \in FsGrants},
        n \in {<<FALSE, {}, {}>>, <<TRUE, {}, {}>>, <<TRUE, EgressRules, {}>>, <<TRUE, {}, IngressRules>>},
        pr \in {{}} \cup {{g} : g \in ProcessGrants}}

\* the requests host services ask about
Requests ==
    [kind : {"filesystem"}, path : FsPaths, op : {"read", "write"}]
      \cup [kind : {"egress"}, proto : {"tcp", "udp"}, host : {"api", "evil"}, port : {443, 80}]
      \cup [kind : {"ingress"}, proto : {"tcp", "udp"}, port : {8080, 80}, origin : {"lan", "wan"}]
      \cup [kind : {"exec"}, cmd : {"ls", "rm"}, args : {"-l", ""}]
      \cup [kind : {"kill", "list", "signal"}, scope : {"children", "all"}]

NoDecision == [asked |-> FALSE, request |-> [kind |-> "none"], allow |-> FALSE]

InitCaps(capSets) ==
    /\ caps \in capSets
    /\ decision = NoDecision

\* nothing loaded, launched or asked outside the pool
InitExtIdle ==
    /\ InitLaunch({ZeroManifest})
    /\ InitChecksum({[readable |-> FALSE, runs |-> <<>>]})
    /\ InitPlugins
    /\ InitCaps({EmptyCapabilities})

\* a pool, its jobs submitted one by one (no SubmitBatch call), and an empty
\* plugins root
InitFrom(workerArgs, bufferArgs, retryArgs) ==
    /\ InitPool(workerArgs, bufferArgs, retryArgs)
    /\ InitBuild
    /\ InitBatch(<<>>)
    /\ InitRegistry({[kind |-> "absent", bytes |-> 0]}) /\ fsRootOk
    /\ InitExtIdle

Init == InitFrom(RequestedWorkers, RequestedBuffers, PoolRetryConfigs)

\* mutant: Run starts one worker too many
StartedWorkers_Extra(n) == 1..(n + 1)

\* the workers Run starts
StartedWorkers(n) == 1..n

\* PoolMetrics.SetStarted: startedAt = time.Now()
SetStarted(m) == [m EXCEPT !.startedSet = TRUE, !.startedAt = now]

\* PoolMetrics.SetStopped: stoppedAt = time.Now()
SetStopped(m) == [m EXCEPT !.stoppedSet = TRUE, !.stoppedAt = now]

\* Pool.Run: SetStarted, start the aggregator, start maxWorkers workers
Run ==
    /\ ~crashed /\ ~started
    /\ started' = TRUE
    /\ pm' = SetStarted(pm)
    /\ wpc' = [w \in Workers |->
                 IF w \in StartedWorkers(maxWorkers) THEN "select" ELSE wpc[w]]
    /\ wg' = wg + Cardinality(StartedWorkers(maxWorkers))
    /\ UNCHANGED <<cfgVars, closed, chanVars, wjob, attempt, wres, subVars, jCanceled,
                   invocations, lcVars, consVars, crashed, timeVars, retryVars, auxVars>>

\* ---- Pool.Submit ----

\* mutant: Submit does not look at the closed flag
SubmitBegin_NoCheck(j) ==
    /\ ~crashed /\ started /\ subPc[j] = "new"
    /\ UNCHANGED <<jMaxRetries, jRetryDelay>>
    /\ jStamped' = [jStamped EXCEPT ![j] = TRUE]
    /\ jm' = SetSubmittedAt(j)
    /\ subPc' = [subPc EXCEPT ![j] = "send"]
    /\ UNCHANGED <<cfgVars, started, closed, wg, pm, chanVars, workerVars, jCanceled,
                   invocations, lcVars, consVars, crashed, now, retryVars, auxVars>>

\* job.SetSubmittedAt(); if p.closed.Load() { return ErrPoolClosed }
SubmitBegin(j) ==
    /\ ~crashed /\ started /\ subPc[j] = "new"
    /\ UNCHANGED <<jMaxRetries, jRetryDelay>>
    /\ jStamped' = [jStamped EXCEPT ![j] = TRUE]
    /\ jm' = SetSubmittedAt(j)
    /\ subPc' = [subPc EXCEPT ![j] = IF closed THEN "errClosed" ELSE "send"]
    /\ UNCHANGED <<cfgVars, started, closed, wg, pm, chanVars, workerVars, jCanceled,
                   invocations, lcVars, consVars, crashed, now, retryVars, auxVars>>

\* mutant: Submit has no deferred recover, the panic of the send leaves Submit
SubmitSendClosed_NoRecover(j) ==
    /\ ~crashed /\ subPc[j] = "send" /\ jobsClosed
    /\ crashed' = TRUE
    /\ subPc' = [subPc EXCEPT ![j] = "panicked"]
    /\ UNCHANGED <<cfgVars, started, closed, wg, pm, chanVars, workerVars, jMaxRetries,
                   jRetryDelay, jStamped, jCanceled, invocations, lcVars, consVars, timeVars, retryVars, auxVars>>

\* p.jobs <- job on a closed channel panics; the deferred recover turns it into
\* ErrPoolClosed and records a failed submission
SubmitSendClosed(j) ==
    /\ ~crashed /\ subPc[j] = "send" /\ jobsClosed
    /\ pm' = [pm EXCEPT !.submissionFailures = @ + 1]
    /\ subPc' = [subPc EXCEPT ![j] = "errClosed"]
    /\ UNCHANGED <<cfgVars, started, closed, wg, chanVars, workerVars, jMaxRetries,
                   jRetryDelay, jStamped, jCanceled, invocations, lcVars, consVars, crashed, timeVars, retryVars, auxVars>>

\* p.jobs <- job into a free buffer slot
SubmitSendBuffered(j) ==
    /\ ~crashed /\ subPc[j] = "send" /\ ~jobsClosed
    /\ Len(jobsBuf) < buffer
    /\ jobsBuf' = Append(jobsBuf, j)
    /\ subPc' = [subPc EXCEPT ![j] = "sent"]
    /\ UNCHANGED <<cfgVars, started, closed, wg, pm, jobsClosed, resultsCh, metricsCh,
                   workerVars, jMaxRetries, jRetryDelay, jStamped, jCanceled, invocations,
                   lcVars, consVars, crashed, timeVars, retryVars, auxVars>>

\* p.metrics.RecordSubmission(); return nil
SubmitRecord(j) ==
    /\ ~crashed /\ subPc[j] = "sent"
    /\ pm' = [pm EXCEPT !.submissions = @ + 1]
    /\ subPc' = [subPc EXCEPT ![j] = "ok"]
    /\ UNCHANGED <<cfgVars, started, closed, wg, chanVars, workerVars, jMaxRetries,
                   jRetryDelay, jStamped, jCanceled, invocations, lcVars, consVars, crashed, timeVars, retryVars, auxVars>>

\* the retry loop of job j has returned (its context is not read afterwards)
Finished(j) ==
    \/ delivered[j] > 0
    \/ \E w \in Workers : j \in wjob[w] /\ wpc[w] \in {"send", "metric"}
    \/ \E i \in 1..Len(resultsBuf) : resultsBuf[i].job = j

\* the context of a submitted job is canceled from outside the pool (cancel
\* handle, timeout, deadline or parent context)
CancelJob(j) ==
    /\ ~crashed /\ subPc[j] \in {"send", "sent", "ok"}
    /\ ~jCanceled[j] /\ ~Finished(j)
    /\ jCanceled' = [jCanceled EXCEPT ![j] = TRUE]
    /\ UNCHANGED <<cfgVars, started, closed, wg, pm, chanVars, workerVars, subVars,
                   invocations, lcVars, consVars, crashed, timeVars, retryVars, auxVars>>

\* ---- Worker.Start ----

\* the job a worker holds
JobOf(w) == CHOOSE j \in wjob[w] : TRUE

\* mutant: the JobResult is built without the error
NewJobResult_NoErr(j, w, r) == [job |-> j, worker |-> w, val |-> r.val, err |-> "none"]

\* NewJobResult: the job's id, the worker, the value and the error
NewJobResult(j, w, r) == [job |-> j, worker |-> w, val |-> r.val, err |-> r.err]

\* the worker stamps finished_at when the job function returns
WorkerStampsFinished(j) == jm' = SetFinishedAt(j)

\* mutant: the worker takes the job without stamping it
WorkerStampsStarted_Skip(j) == UNCHANGED jm

\* the worker stamps started_at when it has taken the job
WorkerStampsStarted(j) == jm' = SetStartedAt(j)

\* the worker has received job j: attempt 0 of the retry loop
TakeJob(w, j) ==
    /\ wjob' = [wjob EXCEPT ![w] = @ \cup {j}]
    /\ WorkerStampsStarted(j)
    /\ attempt' = [attempt EXCEPT ![w] = 0]
    /\ wpc' = [wpc EXCEPT ![w] = "check"]
    /\ UNCHANGED wres

\* case job, ok := <-w.jobs, a buffered job (also after the channel was closed)
WorkerTakeBuffered(w) ==
    /\ ~crashed /\ wpc[w] = "select"
    /\ jobsBuf # <<>>
    /\ jobsBuf' = Tail(jobsBuf)
    /\ TakeJob(w, Head(jobsBuf))
    /\ UNCHANGED <<cfgVars, started, closed, wg, pm, jobsClosed, resultsCh, metricsCh,
                   subVars, jCanceled, invocations, lcVars, consVars, crashed, now, retryVars, auxVars>>

\* case job, ok := <-w.jobs, handed over by a Submit blocked on the unbuffered channel
WorkerTakeDirect(w, j) ==
    /\ ~crashed /\ wpc[w] = "select"
    /\ buffer = 0 /\ ~jobsClosed /\ subPc[j] = "send"
    /\ subPc' = [subPc EXCEPT ![j] = "sent"]
    /\ TakeJob(w, j)
    /\ UNCHANGED <<cfgVars, started, closed, wg, pm, chanVars, jMaxRetries, jRetryDelay,
                   jStamped, jCanceled, invocations, lcVars, consVars, crashed, now, retryVars, auxVars>>

\* mutant: the worker returns as soon as the jobs channel is closed, leaving
\* buffered jobs behind
WorkerJobsClosed_NoDrain(w) ==
    /\ ~crashed /\ wpc[w] = "select"
    /\ jobsClosed
    /\ wpc' = [wpc EXCEPT ![w] = "exited"]
    /\ wg' = wg - 1
    /\ UNCHANGED <<cfgVars, started, closed, pm, chanVars, wjob, attempt, wres, subVars,
                   jCanceled, invocations, lcVars, consVars, crashed, timeVars, retryVars, auxVars>>

\* case job, ok := <-w.jobs with !ok: return (Run defers wg.Done)
WorkerJobsClosed(w) ==
    /\ ~crashed /\ wpc[w] = "select"
    /\ jobsClosed /\ jobsBuf = <<>>
    /\ wpc' = [wpc EXCEPT ![w] = "exited"]
    /\ wg' = wg - 1
    /\ UNCHANGED <<cfgVars, started, closed, pm, chanVars, wjob, attempt, wres, subVars,
                   jCanceled, invocations, lcVars, consVars, crashed, timeVars, retryVars, auxVars>>

\* the job function returns r: the worker goes on to publish it.  (The deferred
\* job.Cancel / job.CancelWithCause ends the context after its last read.)
FuncReturn(w, r) ==
    /\ WorkerStampsFinished(JobOf(w))
    /\ wres' = [wres EXCEPT ![w] = r]
    /\ wpc' = [wpc EXCEPT ![w] = "send"]

\* mutant: the retry loop does not look at the context before an attempt
WorkerCheck_NoCtx(w) ==
    /\ ~crashed /\ wpc[w] = "check"
    /\ jRetryCount' = [jRetryCount EXCEPT ![JobOf(w)] = attempt[w]]
    /\ invocations' = [invocations EXCEPT ![JobOf(w)] = @ + 1]
    /\ wpc' = [wpc EXCEPT ![w] = "exec"]
    /\ UNCHANGED jm
    /\ UNCHANGED <<cfgVars, started, closed, wg, pm, chanVars, wjob, attempt, wres, subVars,
                   jCanceled, lcVars, consVars, crashed, now, lastRet, auxVars>>

\* mutant: the context is looked at before the first attempt only
WorkerCheck_FirstOnly(w) ==
    /\ ~crashed /\ wpc[w] = "check"
    /\ jRetryCount' = [jRetryCount EXCEPT ![JobOf(w)] = attempt[w]]
    /\ IF jCanceled[JobOf(w)] /\ attempt[w] = 0
         THEN /\ FuncReturn(w, CtxErrRes)
              /\ UNCHANGED invocations
         ELSE /\ invocations' = [invocations EXCEPT ![JobOf(w)] = @ + 1]
              /\ wpc' = [wpc EXCEPT ![w] = "exec"]
              /\ UNCHANGED <<wres, jm>>
    /\ UNCHANGED <<cfgVars, started, closed, wg, pm, chanVars, wjob, attempt, subVars,
                   jCanceled, lcVars, consVars, crashed, now, lastRet, auxVars>>

\* top of the retry loop: job.RetryCount = attempt; a done context returns
\* (nil, ctx.Err()), otherwise job.Execute is called
WorkerCheck(w) ==
    /\ ~crashed /\ wpc[w] = "check"
    /\ jRetryCount' = [jRetryCount EXCEPT ![JobOf(w)] = attempt[w]]
    /\ IF jCanceled[JobOf(w)]
         THEN /\ FuncReturn(w, CtxErrRes)
              /\ UNCHANGED invocations
         ELSE /\ invocations' = [invocations EXCEPT ![JobOf(w)] = @ + 1]
              /\ wpc' = [wpc EXCEPT ![w] = "exec"]
              /\ UNCHANGED <<wres, jm>>
    /\ UNCHANGED <<cfgVars, started, closed, wg, pm, chanVars, wjob, attempt, subVars,
                   jCanceled, lcVars, consVars, crashed, now, lastRet, auxVars>>

\* mutant: the loop never retries
LoopReturns_Never(r, att, max) == TRUE

\* mutant: the loop allows one attempt more before it gives up
LoopReturns_Late(r, att, max) == r.err = "none" \/ att > max

\* if e == nil || attempt >= job.MaxRetries { return v, e }
LoopReturns(r, att, max) == r.err = "none" \/ att >= max

\* job.Execute returns (v, e): success or the last attempt return it, otherwise
\* the loop waits for the delay (if any) or goes straight to the next attempt
WorkerExecReturn(w, r) ==
    /\ ~crashed /\ wpc[w] = "exec"
    /\ lastRet' = [lastRet EXCEPT ![JobOf(w)] = r]
    /\ IF LoopReturns(r, attempt[w], jMaxRetries[JobOf(w)])
         THEN /\ FuncReturn(w, r)
              /\ UNCHANGED attempt
         ELSE /\ IF jRetryDelay[JobOf(w)] > 0
                   THEN /\ wpc' = [wpc EXCEPT ![w] = "delay"]
                        /\ UNCHANGED attempt
                   ELSE /\ wpc' = [wpc EXCEPT ![w] = "check"]
                        /\ attempt' = [attempt EXCEPT ![w] = @ + 1]
              /\ UNCHANGED <<wres, jm>>
    /\ UNCHANGED <<cfgVars, started, closed, wg, pm, chanVars, wjob, subVars, jCanceled,
                   invocations, lcVars, consVars, crashed, now, jRetryCount, auxVars>>

\* mutant: nothing recovers the panic of job.Execute and the worker is lost
WorkerExecPanic_Dies(w) ==
    /\ ~crashed /\ wpc[w] = "exec"
    /\ lastRet' = [lastRet EXCEPT ![JobOf(w)] = PanicRes]
    /\ wres' = [wres EXCEPT ![w] = PanicRes]
    /\ wpc' = [wpc EXCEPT ![w] = "exited"]
    /\ wg' = wg - 1
    /\ UNCHANGED jm
    /\ UNCHANGED <<cfgVars, started, closed, pm, chanVars, wjob, attempt, subVars,
                   jCanceled, invocations, lcVars, consVars, crashed, now, jRetryCount, auxVars>>

\* job.Execute panics: the deferred recover sets err = "panic: ..." and the job
\* function returns
WorkerExecPanic(w) ==
    /\ ~crashed /\ wpc[w] = "exec"
    /\ lastRet' = [lastRet EXCEPT ![JobOf(w)] = PanicRes]
    /\ FuncReturn(w, PanicRes)
    /\ UNCHANGED <<cfgVars, started, closed, wg, pm, chanVars, wjob, attempt, subVars,
                   jCanceled, invocations, lcVars, consVars, crashed, now, jRetryCount, auxVars>>

\* retry delay, case <-job.Ctx.Done(): t.Stop(); return (nil, ctx.Err())
WorkerDelayCanceled(w) ==
    /\ ~crashed /\ wpc[w] = "delay"
    /\ jCanceled[JobOf(w)]
    /\ FuncReturn(w, CtxErrRes)
    /\ UNCHANGED <<cfgVars, started, closed, wg, pm, chanVars, wjob, attempt, subVars,
                   jCanceled, invocations, lcVars, consVars, crashed, now, retryVars, auxVars>>

\* retry delay, case <-t.C: next attempt
WorkerDelayExpired(w) ==
    /\ ~crashed /\ wpc[w] = "delay"
    /\ wpc' = [wpc EXCEPT ![w] = "check"]
    /\ attempt' = [attempt EXCEPT ![w] = @ + 1]
    /\ UNCHANGED <<cfgVars, started, closed, wg, pm, chanVars, wjob, wres, subVars,
                   jCanceled, invocations, lcVars, consVars, crashed, timeVars, retryVars, auxVars>>

\* after the result is sent the worker publishes success or failure to the
\* metrics channel
ResultSent(w) ==
    /\ wpc' = [wpc EXCEPT ![w] = "metric"]
    /\ UNCHANGED <<wjob, attempt, wres>>

\* the worker is done with its job and selects again
ReleaseJob(w) ==
    /\ wjob' = [wjob EXCEPT ![w] = {}]
    /\ wres' = [wres EXCEPT ![w] = NoRes]
    /\ wpc' = [wpc EXCEPT ![w] = "select"]
    /\ attempt' = [attempt EXCEPT ![w] = 0]

\* case w.results <- NewJobResult(...) into a free buffer slot
WorkerSendBuffered(w) ==
    /\ ~crashed /\ wpc[w] = "send"
    /\ ~resultsClosed /\ Len(resultsBuf) < buffer
    /\ resultsBuf' = Append(resultsBuf, NewJobResult(JobOf(w), w, wres[w]))
    /\ ResultSent(w)
    /\ UNCHANGED <<cfgVars, started, closed, wg, pm, jobsCh, resultsClosed, metricsCh,
                   subVars, jCanceled, invocations, lcVars, consVars, crashed, timeVars, retryVars, auxVars>>

\* the consumer takes JobResult r from the results stream
Receive(r) ==
    /\ delivered' = [delivered EXCEPT ![r.job] = @ + 1]
    /\ lastRes' = [lastRes EXCEPT ![r.job] = [val |-> r.val, err |-> r.err]]

\* case w.results <- NewJobResult(...) handed to the consumer of the unbuffered channel
WorkerSendDirect(w) ==
    /\ ~crashed /\ wpc[w] = "send"
    /\ ~resultsClosed /\ buffer = 0
    /\ Receive(NewJobResult(JobOf(w), w, wres[w]))
    /\ ResultSent(w)
    /\ UNCHANGED <<cfgVars, started, closed, wg, pm, chanVars, subVars, jCanceled,
                   invocations, lcVars, crashed, timeVars, retryVars, auxVars>>

\* w.results <- ... on a closed channel panics outside the recover of the job
\* function, so nothing recovers it.  (case <-w.quit is never ready: no pool
\* operation closes or sends on Pool.quit.)
WorkerSendClosed(w) ==
    /\ ~crashed /\ wpc[w] = "send"
    /\ resultsClosed
    /\ crashed' = TRUE
    /\ UNCHANGED <<cfgVars, started, closed, wg, pm, chanVars, workerVars, subVars,
                   jCanceled, invocations, lcVars, consVars, timeVars, retryVars, auxVars>>

\* <-p.Results() of a buffered result (also after the channel was closed)
ConsumerReceive ==
    /\ ~crashed /\ resultsBuf # <<>>
    /\ resultsBuf' = Tail(resultsBuf)
    /\ Receive(Head(resultsBuf))
    /\ UNCHANGED <<cfgVars, started, closed, wg, pm, jobsCh, resultsClosed, metricsCh,
                   workerVars, subVars, jCanceled, invocations, lcVars, crashed, timeVars, retryVars, auxVars>>

\* ---- metrics fan-in ----

\* the record a worker publishes for result r: success iff no error
MetricOf(r) == r.err = "none"

\* collectMetrics: one record counted under the lock
Collect(isSuccess) ==
    pm' = IF isSuccess THEN [pm EXCEPT !.succeeded = @ + 1]
                       ELSE [pm EXCEPT !.failed = @ + 1]

\* metrics <- record into a free buffer slot
WorkerMetricBuffered(w) ==
    /\ ~crashed /\ wpc[w] = "metric"
    /\ ~metricsClosed /\ Len(metricsBuf) < buffer
    /\ metricsBuf' = Append(metricsBuf, MetricOf(wres[w]))
    /\ ReleaseJob(w)
    /\ UNCHANGED <<cfgVars, started, closed, wg, pm, jobsCh, resultsCh, metricsClosed,
                   subVars, jCanceled, invocations, lcVars, consVars, crashed, timeVars, retryVars, auxVars>>

\* metrics <- record handed to collectMetrics on the unbuffered channel
WorkerMetricDirect(w) ==
    /\ ~crashed /\ wpc[w] = "metric"
    /\ ~metricsClosed /\ buffer = 0
    /\ Collect(MetricOf(wres[w]))
    /\ ReleaseJob(w)
    /\ UNCHANGED <<cfgVars, started, closed, wg, chanVars, subVars, jCanceled,
                   invocations, lcVars, consVars, crashed, timeVars, retryVars, auxVars>>

\* metrics <- record on a closed channel panics
WorkerMetricClosed(w) ==
    /\ ~crashed /\ wpc[w] = "metric"
    /\ metricsClosed
    /\ crashed' = TRUE
    /\ UNCHANGED <<cfgVars, started, closed, wg, pm, chanVars, workerVars, subVars,
                   jCanceled, invocations, lcVars, consVars, timeVars, retryVars, auxVars>>

\* collectMetrics: for mr := range p.metricsChannel
CollectMetrics ==
    /\ ~crashed /\ started /\ metricsBuf # <<>>
    /\ metricsBuf' = Tail(metricsBuf)
    /\ Collect(Head(metricsBuf))
    /\ UNCHANGED <<cfgVars, started, closed, wg, jobsCh, resultsCh, metricsClosed,
                   workerVars, subVars, jCanceled, invocations, lcVars, consVars, crashed, timeVars, retryVars, auxVars>>

\* ---- Pool.Shutdown, Pool.Stop, Pool.Terminate ----

\* mutant: the call goes on to close the channels and leaves the flag unset
LcBegin_FlagUnset(op) ==
    /\ ~crashed /\ started /\ ~closed /\ lcPc = "idle"
    /\ lcOp' = op
    /\ lcPc' = "closeJobs"
    /\ UNCHANGED <<cfgVars, started, closed, wg, pm, chanVars, workerVars, subVars, jCanceled,
                   invocations, lostCalls, consVars, crashed, timeVars, retryVars, auxVars>>

\* p.closed.CompareAndSwap(false, true) succeeds: this call runs the operation
LcBegin(op) ==
    /\ ~crashed /\ started /\ ~closed
    /\ closed' = TRUE
    /\ lcOp' = op
    /\ lcPc' = "closeJobs"
    /\ UNCHANGED <<cfgVars, started, wg, pm, chanVars, workerVars, subVars, jCanceled,
                   invocations, lostCalls, consVars, crashed, timeVars, retryVars, auxVars>>

\* mutant: a Shutdown or Terminate that lost the compare-and-swap still closes
\* the results and metrics channels when they are open
LcLost_ClosesStreams(op) ==
    /\ ~crashed /\ started /\ closed
    /\ lostCalls < MaxLostCalls
    /\ lostCalls' = lostCalls + 1
    /\ resultsClosed' = (resultsClosed \/ op # "Stop")
    /\ metricsClosed' = (metricsClosed \/ op # "Stop")
    /\ UNCHANGED <<cfgVars, started, closed, wg, pm, jobsCh, resultsBuf, metricsBuf, workerVars,
                   subVars, jCanceled, invocations, lcOp, lcPc, consVars, crashed, timeVars,
                   retryVars, auxVars>>

\* mutant: SetStopped is called before the compare-and-swap is looked at
LcLost_Restamps(op) ==
    /\ ~crashed /\ started /\ closed
    /\ lostCalls < MaxLostCalls
    /\ lostCalls' = lostCalls + 1
    /\ pm' = SetStopped(pm)
    /\ UNCHANGED <<cfgVars, started, closed, wg, chanVars, workerVars, subVars,
                   jCanceled, invocations, lcOp, lcPc, consVars, crashed, timeVars, retryVars, auxVars>>

\* p.closed.CompareAndSwap(false, true) fails: the call returns at once
LcLost(op) ==
    /\ ~crashed /\ started /\ closed
    /\ lostCalls < MaxLostCalls
    /\ lostCalls' = lostCalls + 1
    /\ UNCHANGED <<cfgVars, started, closed, wg, pm, chanVars, workerVars, subVars,
                   jCanceled, invocations, lcOp, lcPc, consVars, crashed, timeVars, retryVars, auxVars>>

\* SetCompleted(); SetDuration() (the duration needs startedAt)
Completed(m) == [m EXCEPT !.completedSet = TRUE, !.completedAt = now,
                          !.durationSet = m.startedSet]

\* p.metrics.SetStopped(); close(p.jobs); Terminate goes on without waiting:
\* SetCompleted(); SetDuration()
LcCloseJobs ==
    /\ ~crashed /\ lcPc = "closeJobs"
    /\ jobsClosed' = TRUE
    /\ IF lcOp = "Terminate"
         THEN /\ pm' = Completed(SetStopped(pm))
              /\ lcPc' = "closeResults"
         ELSE /\ pm' = SetStopped(pm)
              /\ lcPc' = "wait"
    /\ UNCHANGED <<cfgVars, started, closed, wg, jobsBuf, resultsCh, metricsCh, workerVars,
                   subVars, jCanceled, invocations, lcOp, lostCalls, consVars, crashed, timeVars, retryVars, auxVars>>

\* mutant: Stop closes the results channel as Shutdown does
AfterWait_StopCloses(op) == "closeResults"

\* where a lifecycle call goes after p.wg.Wait() and the metrics stamps:
\* Stop returns, Shutdown closes the results channel
AfterWait(op) == IF op = "Stop" THEN "done" ELSE "closeResults"

\* mutant: the lifecycle call does not wait for the workers
LcWait_NoWait ==
    /\ ~crashed /\ lcPc = "wait"
    /\ pm' = Completed(pm)
    /\ lcPc' = AfterWait(lcOp)
    /\ UNCHANGED <<cfgVars, started, closed, wg, chanVars, workerVars, subVars, jCanceled,
                   invocations, lcOp, lostCalls, consVars, crashed, timeVars, retryVars, auxVars>>

\* p.wg.Wait(); SetCompleted(); SetDuration() (Shutdown and Stop)
LcWait ==
    /\ ~crashed /\ lcPc = "wait"
    /\ wg = 0
    /\ pm' = Completed(pm)
    /\ lcPc' = AfterWait(lcOp)
    /\ UNCHANGED <<cfgVars, started, closed, wg, chanVars, workerVars, subVars, jCanceled,
                   invocations, lcOp, lostCalls, consVars, crashed, timeVars, retryVars, auxVars>>

\* close(p.results) (Shutdown and Terminate)
LcCloseResults ==
    /\ ~crashed /\ lcPc = "closeResults"
    /\ resultsClosed' = TRUE
    /\ lcPc' = "closeMetrics"
    /\ UNCHANGED <<cfgVars, started, closed, wg, pm, jobsCh, resultsBuf, metricsCh,
                   workerVars, subVars, jCanceled, invocations, lcOp, lostCalls, consVars, crashed, timeVars, retryVars, auxVars>>

\* close(p.metricsChannel) (Shutdown and Terminate)
LcCloseMetrics ==
    /\ ~crashed /\ lcPc = "closeMetrics"
    /\ metricsClosed' = TRUE
    /\ lcPc' = "done"
    /\ UNCHANGED <<cfgVars, started, closed, wg, pm, jobsCh, resultsCh, metricsBuf,
                   workerVars, subVars, jCanceled, invocations, lcOp, lostCalls, consVars, crashed, timeVars, retryVars, auxVars>>

Next ==
    \/ Run
    \/ \E j \in Jobs : SubmitBegin(j)
    \/ \E j \in Jobs : SubmitSendClosed(j)
    \/ \E j \in Jobs : SubmitSendBuffered(j)
    \/ \E j \in Jobs : SubmitRecord(j)
    \/ \E w \in Workers : WorkerTakeBuffered(w)
    \/ \E w \in Workers, j \in Jobs : WorkerTakeDirect(w, j)
    \/ \E w \in Workers : WorkerJobsClosed(w)
    \/ \E w \in Workers : WorkerCheck(w)
    \/ \E w \in Workers, r \in WorkReturns : WorkerExecReturn(w, r)
    \/ \E w \in Workers : WorkerExecPanic(w)
    \/ \E w \in Workers : WorkerSendBuffered(w)
    \/ \E w \in Workers : WorkerSendDirect(w)
    \/ \E w \in Workers : WorkerSendClosed(w)
    \/ \E w \in Workers : WorkerMetricBuffered(w)
    \/ \E w \in Workers : WorkerMetricDirect(w)
    \/ \E w \in Workers : WorkerMetricClosed(w)
    \/ ConsumerReceive
    \/ CollectMetrics
    \/ \E op \in LifecycleOps : LcBegin(op)
    \/ \E op \in LifecycleOps : LcLost(op)
    \/ LcCloseJobs
    \/ LcWait
    \/ LcCloseResults
    \/ LcCloseMetrics

\* The pool with its lifecycle: jobs without retries whose contexts stay live
Spec == Init /\ [][Next]_vars

\* ---- the retry loop: a one-worker pool that stays open, jobs with retries, ----
\* ---- delays and cancellation                                              ----

InitRetry == InitFrom({0}, RequestedBuffers, RetryConfigs)

NextRetry ==
    \/ Run
    \/ \E j \in Jobs : SubmitBegin(j)
    \/ \E j \in Jobs : SubmitSendBuffered(j)
    \/ \E j \in Jobs : SubmitRecord(j)
    \/ \E j \in Jobs : CancelJob(j)
    \/ \E w \in Workers : WorkerTakeBuffered(w)
    \/ \E w \in Workers, j \in Jobs : WorkerTakeDirect(w, j)
    \/ \E w \in Workers : WorkerCheck(w)
    \/ \E w \in Workers, r \in AnyReturns : WorkerExecReturn(w, r)
    \/ \E w \in Workers : WorkerExecPanic(w)
    \/ \E w \in Workers : WorkerDelayCanceled(w)
    \/ \E w \in Workers : WorkerDelayExpired(w)
    \/ \E w \in Workers : WorkerSendBuffered(w)
    \/ \E w \in Workers : WorkerSendDirect(w)
    \/ \E w \in Workers : WorkerMetricBuffered(w)
    \/ \E w \in Workers : WorkerMetricDirect(w)
    \/ ConsumerReceive
    \/ CollectMetrics

SpecRetry == InitRetry /\ [][NextRetry]_vars

\* ---- the clock: a one-worker pool that stays open while time passes ----

\* time passes
Tick ==
    /\ ~crashed /\ now < MaxClock
    /\ now' = now + 1
    /\ UNCHANGED <<cfgVars, started, closed, wg, pm, chanVars, workerVars, subVars, jCanceled,
                   invocations, lcVars, consVars, crashed, jm, retryVars, auxVars>>

NextTime ==
    \/ Tick
    \/ Run
    \/ \E j \in Jobs : SubmitBegin(j)
    \/ \E j \in Jobs : SubmitSendBuffered(j)
    \/ \E j \in Jobs : SubmitRecord(j)
    \/ \E j \in Jobs : CancelJob(j)
    \/ \E w \in Workers : WorkerTakeBuffered(w)
    \/ \E w \in Workers, j \in Jobs : WorkerTakeDirect(w, j)
    \/ \E w \in Workers : WorkerCheck(w)
    \/ \E w \in Workers, r \in WorkReturns : WorkerExecReturn(w, r)
    \/ \E w \in Workers : WorkerExecPanic(w)
    \/ \E w \in Workers : WorkerSendBuffered(w)
    \/ \E w \in Workers : WorkerSendDirect(w)
    \/ \E w \in Workers : WorkerMetricBuffered(w)
    \/ \E w \in Workers : WorkerMetricDirect(w)
    \/ ConsumerReceive
    \/ CollectMetrics

InitTime == InitFrom({0}, RequestedBuffers, PoolRetryConfigs)

SpecTime == InitTime /\ [][NextTime]_vars

\* ---- the clock and the lifecycle: a one-worker pool with unbuffered channels ----
\* ---- that is shut down, stopped or terminated while time passes            ----

InitStamps == InitFrom({0}, {0}, PoolRetryConfigs)

NextStamps ==
    \/ Tick
    \/ Run
    \/ \E j \in Jobs : SubmitBegin(j)
    \/ \E j \in Jobs : SubmitSendClosed(j)
    \/ \E j \in Jobs : SubmitRecord(j)
    \/ \E w \in Workers, j \in Jobs : WorkerTakeDirect(w, j)
    \/ \E w \in Workers : WorkerJobsClosed(w)
    \/ \E w \in Workers : WorkerCheck(w)
    \/ \E w \in Workers, r \in WorkReturns : WorkerExecReturn(w, r)
    \/ \E w \in Workers : WorkerExecPanic(w)
    \/ \E w \in Workers : WorkerSendDirect(w)
    \/ \E w \in Workers : WorkerSendClosed(w)
    \/ \E w \in Workers : WorkerMetricDirect(w)
    \/ \E w \in Workers : WorkerMetricClosed(w)
    \/ \E op \in LifecycleOps : LcBegin(op)
    \/ LcCloseJobs
    \/ LcWait
    \/ LcCloseResults
    \/ LcCloseMetrics

SpecStamps == InitStamps /\ [][NextStamps]_vars

\* the same pool with further lifecycle calls after the first
NextCalls ==
    \/ NextStamps
    \/ \E op \in LifecycleOps : LcLost(op)

InitCalls == InitFrom({0}, {0}, PoolRetryConfigs)

SpecCalls == InitCalls /\ [][NextCalls]_vars

\* ---- back-pressure: a one-worker pool made with any buffer argument, ----
\* ---- a negative one too                                             ----

AnyBuffers == (0 - 1)..MaxBuffer

InitAnyBuffer == InitFrom({0}, AnyBuffers, PoolRetryConfigs)

SpecAnyBuffer == InitAnyBuffer /\ [][Next]_vars

\* ---- the builders of a job, before it is submitted ----

\* the builders that install a handle
CancelBuilders == {"WithCancel", "WithTimeout", "WithTimeoutCause", "WithDeadline",
                   "WithDeadlineCause"}
CauseBuilders == {"WithCancelCause"}
Builders == CancelBuilders \cup CauseBuilders

\* WithCancel, WithTimeout, WithTimeoutCause, WithDeadline, WithDeadlineCause:
\* j.Ctx = updated; j.Cancel = cancel
BuildCancel(b) ==
    /\ b \in CancelBuilders
    /\ Len(builderCalls) < MaxBuilderCalls
    /\ builderCalls' = Append(builderCalls, b)
    /\ jobCancel' = Len(builderCalls) + 1
    /\ UNCHANGED jobCancelCause
    /\ UNCHANGED <<poolVars, batchVars, regVars, extVars>>

\* WithCancelCause: j.Ctx = updated; j.CancelWithCause = cancel
BuildCancelCause(b) ==
    /\ b \in CauseBuilders
    /\ Len(builderCalls) < MaxBuilderCalls
    /\ builderCalls' = Append(builderCalls, b)
    /\ jobCancelCause' = Len(builderCalls) + 1
    /\ UNCHANGED jobCancel
    /\ UNCHANGED <<poolVars, batchVars, regVars, extVars>>

NextBuild ==
    \/ \E b \in Builders : BuildCancel(b)
    \/ \E b \in Builders : BuildCancelCause(b)

InitJob == InitFrom({0}, {0}, PoolRetryConfigs)

SpecBuild == InitJob /\ [][NextBuild]_vars

\* ---- Pool.SubmitBatch ----

\* the batches given to SubmitBatch
Batches == {<<>>, <<1>>} \cup {b \in [1..NumJobs -> Jobs] : \A i, k \in 1..NumJobs : b[i] = b[k] => i = k}

\* for _, job := range jobs { err := p.Submit(job) ...: Submit is called for
\* the job the loop has reached
BatchSubmit(j) ==
    /\ batchPos <= Len(batch) /\ batch[batchPos] = j
    /\ SubmitBegin(j)

\* mutant: the loop returns at the first failure
BatchCount_StopsAtFailure ==
    /\ ~crashed /\ batchPos <= Len(batch)
    /\ subPc[batch[batchPos]] \in {"ok", "errClosed"}
    /\ IF subPc[batch[batchPos]] = "errClosed"
         THEN /\ batchFailures' = batchFailures + 1
              /\ batchErrs' = TRUE
              /\ batchPos' = Len(batch) + 1
              /\ UNCHANGED batchSubmitted
         ELSE /\ batchSubmitted' = batchSubmitted + 1
              /\ batchPos' = batchPos + 1
              /\ UNCHANGED <<batchFailures, batchErrs>>
    /\ UNCHANGED <<poolVars, buildVars, batch, regVars, extVars>>

\* Submit has returned: if err != nil { failures++; errs = errors.Join(errs, err) }
\* else { submitted++ }, and the loop goes on to the next job
BatchCount ==
    /\ ~crashed /\ batchPos <= Len(batch)
    /\ subPc[batch[batchPos]] \in {"ok", "errClosed"}
    /\ IF subPc[batch[batchPos]] = "errClosed"
         THEN /\ batchFailures' = batchFailures + 1
              /\ batchErrs' = TRUE
              /\ UNCHANGED batchSubmitted
         ELSE /\ batchSubmitted' = batchSubmitted + 1
              /\ UNCHANGED <<batchFailures, batchErrs>>
    /\ batchPos' = batchPos + 1
    /\ UNCHANGED <<poolVars, buildVars, batch, regVars, extVars>>

\* SubmitBatch has returned (submitted, failures, errs)
BatchReturned == batchPos = Len(batch) + 1

NextBatch ==
    \/ Run
    \/ \E j \in Jobs : BatchSubmit(j)
    \/ BatchCount
    \/ \E j \in Jobs : SubmitSendClosed(j)
    \/ \E j \in Jobs : SubmitSendBuffered(j)
    \/ \E j \in Jobs : SubmitRecord(j)
    \/ \E w \in Workers : WorkerTakeBuffered(w)
    \/ \E w \in Workers, j \in Jobs : WorkerTakeDirect(w, j)
    \/ \E w \in Workers : WorkerJobsClosed(w)
    \/ \E w \in Workers : WorkerCheck(w)
    \/ \E w \in Workers, r \in WorkReturns : WorkerExecReturn(w, r)
    \/ \E w \in Workers : WorkerSendBuffered(w)
    \/ \E w \in Workers : WorkerSendDirect(w)
    \/ \E w \in Workers : WorkerMetricBuffered(w)
    \/ \E w \in Workers : WorkerMetricDirect(w)
    \/ ConsumerReceive
    \/ CollectMetrics
    \/ LcBegin("Stop")
    \/ LcCloseJobs
    \/ LcWait

\* a one-worker pool, SubmitBatch as its only submitter, Stop at any moment
InitBatchPool ==
    \E b \in Batches :
       /\ InitPool({0}, RequestedBuffers, PoolRetryConfigs) /\ InitBuild /\ InitBatch(b)
       /\ InitRegistry({[kind |-> "absent", bytes |-> 0]}) /\ fsRootOk
       /\ InitExtIdle

SpecBatch == InitBatchPool /\ [][NextBatch]_vars

\* ---- the registry: PluginLoader.Load, LoadManifest, Manifests and its readers ----

\* the key of the plugins root itself (pl.path) in LoaderErrors
RootKey == NumDirs + 1

\* getMD5Hash: a digest of the manifest bytes, never the empty string
getMD5Hash_Salted(bytes) == 1 + ((bytes * 3 + Len(loadsDone)) % 7)

getMD5Hash(bytes) == 1 + ((bytes * 3) % 7)

\* LoadManifest(root, path) on directory d: OpenRoot, ReadFile, getMD5Hash,
\* yaml.Unmarshal, LookPath. An empty manifest file unmarshals without an error
\* and leaves m nil, and m.PluginData.Entrypoint then dereferences it.
LoadManifest(d) ==
    LET k == fsDirs[d].kind IN
    CASE k = "unreadable"    -> [manifest |-> 0, entrypoint |-> 0, hash |-> 0, err |-> "openRoot", panics |-> FALSE]
      [] k = "noManifest"    -> [manifest |-> 0, entrypoint |-> 0, hash |-> 0, err |-> "readFile", panics |-> FALSE]
      [] k = "emptyManifest" -> [manifest |-> 0, entrypoint |-> 0, hash |-> 0, err |-> "", panics |-> TRUE]
      [] k = "malformed"     -> [manifest |-> 0, entrypoint |-> 0, hash |-> 0, err |-> "yaml", panics |-> FALSE]
      [] k = "noEntrypoint"  -> [manifest |-> 0, entrypoint |-> 0, hash |-> 0, err |-> "lookPath", panics |-> FALSE]
      [] OTHER               -> [manifest |-> fsDirs[d].bytes, entrypoint |-> d,
                                 hash |-> getMD5Hash(fsDirs[d].bytes),
                                 err |-> "", panics |-> FALSE]

\* LoaderErrors.add: l[dir] = err
AddErr(l, key, err) == [k \in DOMAIN l \cup {key} |-> IF k = key THEN err ELSE l[k]]

\* mutant: only a package that loaded gets a catalog entry
Add_OnlyLoaded(dir, entry) ==
    IF entry.manifest = 0 THEN maps ELSE [maps EXCEPT !.catalog[dir] = entry]

\* Manifests.Add under its lock: m.entries[dir] = manifest
Add(dir, entry) == [maps EXCEPT !.catalog[dir] = entry]

\* mutant: Add overwrites the fields of the entry the key already has
StoreEntry_InPlace(s, dir, e) ==
    IF s.ptr[dir] # 0
      THEN [heap |-> [s.heap EXCEPT ![s.ptr[dir]] = e], ptr |-> s.ptr]
      ELSE [heap |-> Append(s.heap, e), ptr |-> [s.ptr EXCEPT ![dir] = Len(s.heap) + 1]]

\* pl.manifests.Add(dir, NewManifestEntry(...)): NewManifestEntry allocates a
\* new ManifestEntry and Add stores the pointer to it under the key
StoreEntry(s, dir, e) ==
    [heap |-> Append(s.heap, e), ptr |-> [s.ptr EXCEPT ![dir] = Len(s.heap) + 1]]

\* the Adds of one walk callback: on a LoadManifest error the callback adds the
\* entry in the error branch and once more after it
StoreVisited(d, e, failed) ==
    LET once == StoreEntry([heap |-> heap, ptr |-> catPtr], d, e) IN
    IF failed THEN StoreEntry(once, d, e) ELSE once

Loading == loadPc \in {"walk", "return"}

\* the directories the walk of a Load reaches: those that exist, up to the
\* first that cannot be listed
Visited(rootOk, dirs) ==
    {d \in Dirs : /\ rootOk /\ dirs[d].kind # "absent"
                  /\ \A k \in Dirs : k < d => dirs[k].kind # "unreadable"}

\* mutant: every Load starts from an empty catalog
LoadBegin_FreshCatalog ==
    /\ ~regPanicked
    /\ loadPc \in {"idle", "done"}
    /\ Len(loadsDone) < MaxLoads
    /\ preCatalog' = maps.catalog
    /\ snapDuring' = {}
    /\ loadPos' = 1
    /\ maps' = [maps EXCEPT !.catalog = NewManifests]
    /\ catPtr' = [d \in Dirs |-> 0]
    /\ IF fsRootOk
         THEN lErrs' = [k \in {} |-> ""] /\ loadPc' = "walk"
         ELSE lErrs' = AddErr([k \in {} |-> ""], RootKey, "invalidPath") /\ loadPc' = "return"
    /\ UNCHANGED <<poolVars, buildVars, batchVars, extVars, heap, held, fsVars, loadsDone, snapRef,
                   regPanicked>>

\* Load up to the walk: a fresh LoaderErrors, os.OpenRoot(pl.path)
LoadBegin ==
    /\ ~regPanicked
    /\ loadPc \in {"idle", "done"}
    /\ Len(loadsDone) < MaxLoads
    /\ preCatalog' = maps.catalog
    /\ snapDuring' = {}
    /\ loadPos' = 1
    /\ IF fsRootOk
         THEN lErrs' = [k \in {} |-> ""] /\ loadPc' = "walk"
         ELSE lErrs' = AddErr([k \in {} |-> ""], RootKey, "invalidPath") /\ loadPc' = "return"
    /\ UNCHANGED <<poolVars, buildVars, batchVars, extVars, entVars, fsVars, maps, loadsDone, snapRef, regPanicked>>

\* the walk callback on directory d: LoadManifest, the error and the entry are
\* recorded; when the directory then cannot be listed the callback is called
\* again with the error and returns it, which ends the walk
LoadVisit(d) ==
    /\ ~regPanicked
    /\ loadPc = "walk"
    /\ loadPos = d
    /\ IF fsDirs[d].kind = "absent"
         THEN /\ loadPos' = d + 1
              /\ UNCHANGED <<maps, lErrs, loadPc, regPanicked, heap, catPtr>>
         ELSE LET res == LoadManifest(d) IN
              IF res.panics
                THEN /\ regPanicked' = TRUE
                     /\ UNCHANGED <<maps, lErrs, loadPc, loadPos, heap, catPtr>>
                ELSE /\ maps' = Add(d, NewManifestEntry(res.manifest, res.entrypoint, res.hash))
                     /\ heap' = StoreVisited(d, NewManifestEntry(res.manifest, res.entrypoint, res.hash),
                                              res.err # "").heap
                     /\ catPtr' = StoreVisited(d, NewManifestEntry(res.manifest, res.entrypoint, res.hash),
                                                res.err # "").ptr
                     /\ regPanicked' = FALSE
                     /\ IF fsDirs[d].kind = "unreadable"
                          THEN /\ lErrs' = AddErr(AddErr(lErrs, d, "invalidPath"), RootKey, "loadingFS")
                               /\ loadPc' = "return"
                               /\ loadPos' = loadPos
                          ELSE /\ lErrs' = IF res.err # "" THEN AddErr(lErrs, d, res.err) ELSE lErrs
                               /\ loadPc' = "walk"
                               /\ loadPos' = d + 1
    /\ UNCHANGED <<poolVars, buildVars, batchVars, extVars, fsVars, loadsDone, preCatalog, readerVars,
                   held>>

\* Load returns pl.manifests and lErrs
LoadReturn ==
    /\ ~regPanicked
    /\ \/ loadPc = "return"
       \/ loadPc = "walk" /\ loadPos > NumDirs
    /\ loadPc' = "done"
    /\ loadsDone' = Append(loadsDone, [rootOk |-> fsRootOk, dirs |-> fsDirs, before |-> preCatalog,
                                       seen |-> snapDuring, catalog |-> maps.catalog, errs |-> lErrs])
    /\ UNCHANGED <<poolVars, buildVars, batchVars, extVars, entVars, fsVars, maps, lErrs, loadPos, preCatalog,
                   readerVars, regPanicked>>

\* the plugins root changes between two Loads
FsChange(d, st) ==
    /\ ~regPanicked
    /\ loadPc = "done"
    /\ Len(loadsDone) < MaxLoads
    /\ fsDirs[d] # st
    /\ fsDirs' = [fsDirs EXCEPT ![d] = st]
    /\ UNCHANGED <<poolVars, buildVars, batchVars, extVars, entVars, fsRootOk, fsParent, maps, loadVars, readerVars,
                   regPanicked>>

\* Manifests.GetManifests: a new map with a copy of every entry
GetManifests_Alias == [ref |-> "catalog", maps |-> maps]

GetManifests == [ref |-> "clone", maps |-> [maps EXCEPT !.clone = maps.catalog]]

\* a reader calls GetManifests, at any moment
ReaderGetManifests ==
    /\ ~regPanicked
    /\ snapRef' = GetManifests.ref
    /\ maps' = GetManifests.maps
    /\ snapDuring' = IF Loading THEN snapDuring \cup {maps.catalog} ELSE snapDuring
    /\ UNCHANGED <<poolVars, buildVars, batchVars, extVars, entVars, fsVars, loadVars, regPanicked>>

\* the reader adds, replaces or removes a key of the map it was given
ReaderEntries == {NoEntry, NewManifestEntry(0, 0, 0)}
ReaderWrite(d, e) ==
    /\ ~regPanicked
    /\ snapRef # "none"
    /\ maps[snapRef][d] # e
    /\ maps' = [maps EXCEPT ![snapRef][d] = e]
    /\ UNCHANGED <<poolVars, buildVars, batchVars, extVars, entVars, fsVars, loadVars, readerVars, regPanicked>>

\* Manifests.GetManifest(dir) and GetHash(dir): m.entries[dir].Manifest() and
\* .Hash() dereference the entry, which is nil for a key the map does not hold
GetEntryField(dir) ==
    /\ ~regPanicked
    /\ loadPc = "done"
    /\ regPanicked' = ~maps.catalog[dir].present
    /\ UNCHANGED <<poolVars, buildVars, batchVars, extVars, entVars, fsVars, maps, loadVars, readerVars>>

\* Manifests.LogValue: Manifest.LogValue of every entry, which dereferences the
\* manifest
LogValue ==
    /\ ~regPanicked
    /\ loadPc = "done"
    /\ regPanicked' = (\E d \in Keys(maps.catalog) : maps.catalog[d].manifest = 0)
    /\ UNCHANGED <<poolVars, buildVars, batchVars, extVars, entVars, fsVars, maps, loadVars, readerVars>>

NextRegistry ==
    \/ LoadBegin
    \/ \E d \in Dirs : LoadVisit(d)
    \/ LoadReturn
    \/ \E d \in Dirs, st \in DirStates : FsChange(d, st)
    \/ ReaderGetManifests
    \/ \E d \in Dirs : GetEntryField(d)
    \/ LogValue

\* a loader over a plugins root in any state, and one reader of its catalog
InitLoader ==
    /\ InitPool({0}, {0}, PoolRetryConfigs) /\ InitBuild /\ InitBatch(<<>>)
    /\ InitRegistry(DirStates)
    /\ InitExtIdle

SpecRegistry == InitLoader /\ [][NextRegistry]_vars

\* the loader and a reader that changes the maps GetManifests gives it
NextReader ==
    \/ LoadBegin
    \/ \E d \in Dirs : LoadVisit(d)
    \/ LoadReturn
    \/ ReaderGetManifests
    \/ \E d \in Dirs, e \in ReaderEntries : ReaderWrite(d, e)

SpecReader == InitLoader /\ [][NextReader]_vars

\* a loader over a plugins root whose packages can hold directories of their own
NextTree ==
    \/ LoadBegin
    \/ \E d \in Dirs : LoadVisit(d)
    \/ LoadReturn

InitTree ==
    /\ InitPool({0}, {0}, PoolRetryConfigs) /\ InitBuild /\ InitBatch(<<>>)
    /\ InitRegistryTree(DirStates, Trees)
    /\ InitExtIdle

SpecTree == InitTree /\ [][NextTree]_vars

\* ---- consumers that keep a ManifestEntry across reloads ----

\* Manifests.GetEntry(dir): the pointer the map holds (nil for a missing key);
\* the consumer reads Manifest() and Hash() from it
ConsumerGetEntry(d) ==
    /\ ~regPanicked
    /\ held' = IF catPtr[d] = 0 THEN NoHeld ELSE [ptr |-> catPtr[d], was |-> heap[catPtr[d]]]
    /\ UNCHANGED <<poolVars, buildVars, batchVars, extVars, fsVars, maps, loadVars, readerVars,
                   regPanicked, heap, catPtr>>

\* Manifests.GetManifests()[dir]: `entry := *v; clone[k] = &entry` gives the
\* consumer a pointer to a copy of the entry
ConsumerCloneEntry(d) ==
    /\ ~regPanicked
    /\ catPtr[d] # 0
    /\ Len(heap) < MaxHeap
    /\ heap' = Append(heap, heap[catPtr[d]])
    /\ held' = [ptr |-> Len(heap) + 1, was |-> heap[catPtr[d]]]
    /\ UNCHANGED <<poolVars, buildVars, batchVars, extVars, fsVars, maps, loadVars, readerVars,
                   regPanicked, catPtr>>

NextEntries ==
    \/ LoadBegin
    \/ \E d \in Dirs : LoadVisit(d)
    \/ LoadReturn
    \/ \E d \in Dirs, st \in DirStates : FsChange(d, st)
    \/ \E d \in Dirs : ConsumerGetEntry(d)
    \/ \E d \in Dirs : ConsumerCloneEntry(d)

\* a loader over a flat plugins root in any state, and a consumer of its entries
InitEntries ==
    /\ InitPool({0}, {0}, PoolRetryConfigs) /\ InitBuild /\ InitBatch(<<>>)
    /\ InitRegistry(DirStates)
    /\ InitExtIdle

SpecEntries == InitEntries /\ [][NextEntries]_vars

\* ---- Manifest.ToLaunchDetails and Handshake.ToConfig ----

\* Handshake.ToConfig: the first zero field, in the order version, key, value,
\* gives its error and no configuration
ToConfig_ValueFirst(h) ==
    IF h.MagicCookieValue = ""
      THEN [called |-> TRUE, nil |-> TRUE, cfg |-> ZeroHandshakeConfig, err |-> "ErrInvalidMagicCookieValue"]
      ELSE IF h.ProtocolVersion = 0
      THEN [called |-> TRUE, nil |-> TRUE, cfg |-> ZeroHandshakeConfig, err |-> "ErrInvalidProtocolVersion"]
      ELSE IF h.MagicCookieKey = ""
      THEN [called |-> TRUE, nil |-> TRUE, cfg |-> ZeroHandshakeConfig, err |-> "ErrInvalidMagicCookieKey"]
      ELSE [called |-> TRUE, nil |-> FALSE, cfg |-> h, err |-> ""]

ToConfig(h) ==
    IF h.ProtocolVersion = 0
      THEN [called |-> TRUE, nil |-> TRUE, cfg |-> ZeroHandshakeConfig, err |-> "ErrInvalidProtocolVersion"]
      ELSE IF h.MagicCookieKey = ""
      THEN [called |-> TRUE, nil |-> TRUE, cfg |-> ZeroHandshakeConfig, err |-> "ErrInvalidMagicCookieKey"]
      ELSE IF h.MagicCookieValue = ""
      THEN [called |-> TRUE, nil |-> TRUE, cfg |-> ZeroHandshakeConfig, err |-> "ErrInvalidMagicCookieValue"]
      ELSE [called |-> TRUE, nil |-> FALSE,
            cfg |-> [ProtocolVersion |-> h.ProtocolVersion, MagicCookieKey |-> h.MagicCookieKey,
                     MagicCookieValue |-> h.MagicCookieValue],
            err |-> ""]

\* AvailablePluginFormatLookup and AvailablePluginFormats; GRPC is the zero
\* value of PluginFormat, which a map lookup of a missing key returns
AvailablePluginFormatLookup == [grpc |-> "GRPC", rpc |-> "RPC"]
IsValidFormat(format) == format \in DOMAIN AvailablePluginFormatLookup
GetPluginFormat(format) == IF IsValidFormat(format) THEN AvailablePluginFormatLookup[format] ELSE "GRPC"
AvailablePluginFormats == [GRPC |-> <<"netrpc", "grpc">>, RPC |-> <<"netrpc">>]
GetByString(format) == AvailablePluginFormats[GetPluginFormat(format)]

\* Manifest.ToLaunchDetails: nil when ToConfig fails; allowedProtocols is left
\* nil for a format the lookup does not hold
ToLaunchDetails_NoFormatCheck(m) ==
    LET hc == ToConfig(m.Handshake) IN
    IF hc.err # ""
      THEN [NoDetails EXCEPT !.called = TRUE]
      ELSE [called |-> TRUE, nil |-> FALSE, handshakeConfig |-> hc.cfg,
            allowedProtocols |-> GetByString(m.Format), AutoMTLS |-> m.AutoMTLS]

ToLaunchDetails(m) ==
    LET hc == ToConfig(m.Handshake) IN
    IF hc.err # ""
      THEN [NoDetails EXCEPT !.called = TRUE]
      ELSE [called |-> TRUE, nil |-> FALSE, handshakeConfig |-> hc.cfg,
            allowedProtocols |-> IF IsValidFormat(m.Format) THEN GetByString(m.Format) ELSE <<>>,
            AutoMTLS |-> m.AutoMTLS]

CallToConfig ==
    /\ ~hcOut.called
    /\ hcOut' = ToConfig(mf.Handshake)
    /\ UNCHANGED <<poolVars, buildVars, batchVars, regVars, mf, ldOut, csVars, pstate, capVars>>

CallToLaunchDetails ==
    /\ ~ldOut.called
    /\ ldOut' = ToLaunchDetails(mf)
    /\ UNCHANGED <<poolVars, buildVars, batchVars, regVars, mf, hcOut, csVars, pstate, capVars>>

NextLaunch == CallToConfig \/ CallToLaunchDetails

\* a manifest with any handshake and format
InitManifest ==
    /\ InitPool({0}, {0}, PoolRetryConfigs) /\ InitBuild /\ InitBatch(<<>>)
    /\ InitRegistry({[kind |-> "absent", bytes |-> 0]}) /\ fsRootOk
    /\ InitLaunch(ManifestValues)
    /\ InitChecksum({[readable |-> FALSE, runs |-> <<>>]})
    /\ InitPlugins
    /\ InitCaps({EmptyCapabilities})

SpecLaunch == InitManifest /\ [][NextLaunch]_vars

\* ---- checksum.LoadSHA256 ----

\* strings.Fields: the words of the file, in order
Fields(runs) == SelectSeq(runs, LAMBDA r : ~r.space)

\* hex.DecodeString: an error for an odd length or a character that is no hex
\* digit, otherwise one byte for every two characters
DecodeString(word) ==
    IF word.len % 2 = 1 \/ ~word.hex
      THEN [len |-> 0, err |-> TRUE]
      ELSE [len |-> word.len \div 2, err |-> FALSE]

InvalidChecksum == [called |-> TRUE, nil |-> TRUE, checksumLen |-> 0, err |-> "ErrInvalidChecksum"]

\* LoadSHA256: ReadFile, Fields, the first field decoded as hex becomes the
\* Checksum of the SecureConfig
LoadSHA256(file) ==
    IF ~file.readable THEN InvalidChecksum
    ELSE LET rawFields == Fields(file.runs) IN
         IF Len(rawFields) = 0 THEN InvalidChecksum
         ELSE LET checksumBytes == DecodeString(rawFields[1]) IN
              IF checksumBytes.err THEN InvalidChecksum
              ELSE [called |-> TRUE, nil |-> FALSE, checksumLen |-> checksumBytes.len, err |-> ""]

CallLoadSHA256 ==
    /\ ~csOut.called
    /\ csOut' = LoadSHA256(csFile)
    /\ UNCHANGED <<poolVars, buildVars, batchVars, regVars, launchVars, csFile, pstate, capVars>>

NextChecksum == CallLoadSHA256

\* a sidecar file with any content
InitSidecar ==
    /\ InitPool({0}, {0}, PoolRetryConfigs) /\ InitBuild /\ InitBatch(<<>>)
    /\ InitRegistry({[kind |-> "absent", bytes |-> 0]}) /\ fsRootOk
    /\ InitLaunch({ZeroManifest})
    /\ InitChecksum(SidecarFiles)
    /\ InitPlugins
    /\ InitCaps({EmptyCapabilities})

SpecChecksum == InitSidecar /\ [][NextChecksum]_vars

\* ---- the plugin state machine ----

\* the failures a lifecycle state can end in: missing files while the directory
\* is examined, invalid files while they are loaded, invalid launch details,
\* FailedToLaunch (or a checksum mismatch) while launching, and a failed stop
\* or an unexpected exit while running
FailuresFrom(st) ==
    CASE st \in PluginDirectoryDiscovered..(PluginDirectoryValidated - 1) ->
              PluginMissingManifest..(PluginInvalidManifest - 1)
      [] st \in PluginDirectoryValidated..(PluginManifestValidated - 1) ->
              (PluginInvalidManifest..PluginBadChecksum) \ {PluginInvalidLaunchDetails}
      [] st = PluginManifestValidated -> {PluginInvalidLaunchDetails}
      [] st = PluginLaunching -> {PluginBadChecksum, PluginFailedToLaunch}
      [] st = PluginRunning -> {PluginFailedToStop, PluginStoppedUnexpectedly}
      [] OTHER -> {}

\* the next lifecycle state: Unknown -> DirectoryDiscovered -> ... -> Stopped
PluginAdvance_RetryLaunch(p) ==
    /\ \/ pstate[p].state \in LifecycleStates \ {PluginStopped}
          /\ pstate' = [pstate EXCEPT ![p].state = @ + 1]
       \/ pstate[p].state = PluginFailedToLaunch
          /\ pstate' = [pstate EXCEPT ![p].state = PluginRunning]
    /\ UNCHANGED <<poolVars, buildVars, batchVars, regVars, launchVars, csVars, capVars>>

PluginAdvance(p) ==
    /\ pstate[p].state \in LifecycleStates \ {PluginStopped}
    /\ pstate' = [pstate EXCEPT ![p].state = @ + 1]
    /\ UNCHANGED <<poolVars, buildVars, batchVars, regVars, launchVars, csVars, capVars>>

\* a step of the lifecycle fails
PluginFail(p, f) ==
    /\ f \in FailuresFrom(pstate[p].state)
    /\ pstate' = [pstate EXCEPT ![p].state = f]
    /\ UNCHANGED <<poolVars, buildVars, batchVars, regVars, launchVars, csVars, capVars>>

\* the external operation that re-enters Unknown, from a failure or from Stopped
PluginReset(p) ==
    /\ IsFailure(pstate[p].state) \/ pstate[p].state = PluginStopped
    /\ pstate' = [pstate EXCEPT ![p] = [state |-> PluginStateUnknown,
                                        recovered |-> @.recovered \/ IsFailure(@.state)]]
    /\ UNCHANGED <<poolVars, buildVars, batchVars, regVars, launchVars, csVars, capVars>>

NextPlugin ==
    \E p \in Plugins :
       \/ PluginAdvance(p)
       \/ \E f \in FailureStates : PluginFail(p, f)
       \/ PluginReset(p)

InitSupervisor == InitFrom({0}, {0}, PoolRetryConfigs)

SpecPlugin == InitSupervisor /\ [][NextPlugin]_vars

\* ---- the capability evaluator ----

IsPrefix(a, b) == Len(a) <= Len(b) /\ SubSeq(b, 1, Len(a)) = a

\* a filesystem grant covers path and op: its path is a prefix of the path, it
\* holds the permission, and it is recursive when the path is deeper
FsAllows(g, r) ==
    /\ IsPrefix(g.Path, r.path)
    /\ r.op \in g.Permissions
    /\ Len(r.path) > Len(g.Path) => g.Recursive

EgressAllows(g, r) == g.Protocol = r.proto /\ r.host \in g.Hosts /\ r.port \in g.Ports

IngressAllows(g, r) == g.Protocol = r.proto /\ r.port \in g.Ports /\ r.origin \in g.AllowedOrigins

ProcessAllows(g, r) ==
    /\ g.Rule = r.kind
    /\ IF r.kind = "exec"
         THEN g.Command = r.cmd /\ (g.Args = "*" \/ g.Args = r.args)
         ELSE r.scope \in g.Scopes

\* is_allowed: allowed when a grant of the request's category covers it, and
\* denied otherwise
IsAllowed_OpenWithoutSection(c, r) ==
    CASE r.kind = "filesystem" -> \E g \in c.Filesystem : FsAllows(g, r)
      [] r.kind = "egress"     -> ~c.HasNetwork \/ \E g \in c.Egress : EgressAllows(g, r)
      [] r.kind = "ingress"    -> ~c.HasNetwork \/ \E g \in c.Ingress : IngressAllows(g, r)
      [] OTHER                 -> \E g \in c.Process : ProcessAllows(g, r)

IsAllowed(c, r) ==
    CASE r.kind = "filesystem" -> \E g \in c.Filesystem : FsAllows(g, r)
      [] r.kind = "egress"     -> c.HasNetwork /\ \E g \in c.Egress : EgressAllows(g, r)
      [] r.kind = "ingress"    -> c.HasNetwork /\ \E g \in c.Ingress : IngressAllows(g, r)
      [] OTHER                 -> \E g \in c.Process : ProcessAllows(g, r)

\* a host service asks about a request
Ask(r) ==
    /\ decision' = [asked |-> TRUE, request |-> r, allow |-> IsAllowed(caps, r)]
    /\ UNCHANGED <<poolVars, buildVars, batchVars, regVars, launchVars, csVars, pstate, caps>>

NextCaps == \E r \in Requests : Ask(r)

\* a plugin with any of the capability values
InitEvaluator ==
    /\ InitPool({0}, {0}, PoolRetryConfigs) /\ InitBuild /\ InitBatch(<<>>)
    /\ InitRegistry({[kind |-> "absent", bytes |-> 0]}) /\ fsRootOk
    /\ InitLaunch({ZeroManifest})
    /\ InitChecksum({[readable |-> FALSE, runs |-> <<>>]})
    /\ InitPlugins
    /\ InitCaps(CapabilityValues)

SpecCaps == InitEvaluator /\ [][NextCaps]_vars

\* ---- fairness: every worker, the results consumer and the metrics aggregator ----
\* ---- keep running, and every work function returns or panics               ----

WorkerStep(w) ==
    \/ WorkerTakeBuffered(w)
    \/ \E j \in Jobs : WorkerTakeDirect(w, j)
    \/ WorkerJobsClosed(w)
    \/ WorkerCheck(w)
    \/ \E r \in WorkReturns : WorkerExecReturn(w, r)
    \/ WorkerExecPanic(w)
    \/ WorkerSendBuffered(w)
    \/ WorkerSendDirect(w)
    \/ WorkerSendClosed(w)
    \/ WorkerMetricBuffered(w)
    \/ WorkerMetricDirect(w)
    \/ WorkerMetricClosed(w)

FairSpec ==
    /\ Spec
    /\ \A w \in Workers : WF_vars(WorkerStep(w))
    /\ WF_vars(ConsumerReceive)
    /\ WF_vars(CollectMetrics)

\* the goroutine that called Shutdown, Stop or Terminate keeps running too
LifecycleStep ==
    \/ LcCloseJobs
    \/ LcWait
    \/ LcCloseResults
    \/ LcCloseMetrics

FairCallSpec ==
    /\ FairSpec
    /\ WF_vars(LifecycleStep)

\* ---- claims ----

\* a job is accepted when Submit has placed it on the jobs channel
Accepted(j) == subPc[j] \in {"sent", "ok"}

\* C1: the results stream never carries two JobResults for one job and never a
\* JobResult for a job that Submit did not accept; and every job whose Submit
\* returned success is eventually delivered exactly once, unless the pool was
\* wound up by Terminate (then the result may never arrive).
C1_AtMostOnce ==
    \A j \in Jobs : delivered[j] <= 1 /\ (delivered[j] = 1 => Accepted(j))

C1_ExactlyOneResult ==
    /\ []C1_AtMostOnce
    /\ \A j \in Jobs : (subPc[j] = "ok") ~> (delivered[j] = 1 \/ lcOp = "Terminate")

\* a job submitted successfully before Shutdown, delivered once, Shutdown returned
C1_Witness ==
    \E j \in Jobs : subPc[j] = "ok" /\ delivered[j] = 1 /\ lcOp = "Shutdown" /\ lcPc = "done"

\* C2: a job with MaxRetries = N has its work function invoked at most N + 1
\* times, whatever the outcomes and the retry delay (at most once for N = 0).
C2_AtMostNPlusOne ==
    \A j \in Jobs : invocations[j] <= jMaxRetries[j] + 1

\* a job that may retry once has used both of its attempts
C2_Witness ==
    \E j \in Jobs : jMaxRetries[j] = MaxRetriesBound /\ invocations[j] = MaxRetriesBound + 1

\* once the context of a job is done, job.Execute is not called again for it
C3_NoReinvoke ==
    [][\A j \in Jobs : jCanceled[j] => invocations'[j] = invocations[j]]_vars

\* C3 as stated: every job canceled before its job function returned is
\* delivered with the cancellation error, whatever the work function returned,
\* and its work function is not invoked again.
C3_AlwaysCancelError ==
    /\ [](\A j \in Jobs : delivered[j] > 0 /\ jCanceled[j] => lastRes[j].err = "ctx")
    /\ C3_NoReinvoke

\* the result of an invocation that was running when the context was canceled:
\* it is returned as it is when it is a success, a panic, or the last attempt
KeptOutcome(j) ==
    \/ lastRes[j].err \in {"none", "panic"}
    \/ lastRes[j].err \in WorkErrors /\ invocations[j] = jMaxRetries[j] + 1

\* C3 (amended): after the context of a job is canceled its work function is
\* never invoked again, and the job is delivered with the cancellation error
\* unless the cancellation arrived while an invocation was running and that
\* invocation succeeded, panicked or was the last allowed attempt; then the
\* JobResult carries that invocation's outcome.
C3_CancelPreempts ==
    /\ [](\A j \in Jobs : delivered[j] > 0 /\ jCanceled[j] =>
             lastRes[j].err = "ctx" \/ (invocations[j] > 0 /\ KeptOutcome(j)))
    /\ C3_NoReinvoke

\* a job canceled after a failed first attempt and before its retry is
\* delivered with the cancellation error after one invocation
C3_Witness ==
    \E j \in Jobs : /\ jCanceled[j] /\ delivered[j] = 1 /\ lastRes[j].err = "ctx"
                    /\ jMaxRetries[j] = 1 /\ invocations[j] = 1

\* this step puts the JobResult of the job worker w holds on the results
\* stream: handed to the consumer or appended to the buffer
Published(w) ==
    \/ /\ delivered'[JobOf(w)] = delivered[JobOf(w)] + 1
       /\ lastRes'[JobOf(w)] = [val |-> wres[w].val, err |-> wres[w].err]
    \/ resultsBuf' = Append(resultsBuf, NewJobResult(JobOf(w), w, wres[w]))

\* C4: a panic of the work function is recovered: the step leaves the worker
\* alive and about to send a JobResult carrying the panic error, the pool is not
\* closed by it and no worker is lost; the worker leaves the send only by
\* putting that JobResult on the results stream; and a worker that lets go of a
\* job goes back to taking jobs.
C4_PanicRecovered ==
    /\ [][\A w \in Workers : wpc[w] = "exec" /\ wres'[w] = PanicRes =>
            /\ wpc'[w] = "send" /\ wjob'[w] = wjob[w]
            /\ ~crashed' /\ wg' = wg /\ closed' = closed
            /\ \A v \in Workers \ {w} : wpc'[v] = wpc[v]]_vars
    /\ [][\A w \in Workers : wpc[w] = "send" /\ wres[w] = PanicRes /\ wpc'[w] # "send" =>
            Published(w) /\ wjob'[w] = wjob[w]]_vars
    /\ [][\A w \in Workers : wjob[w] # {} /\ wjob'[w] = {} => wpc'[w] = "select"]_vars

\* in a one-worker pool one job was delivered with the panic error and the same
\* worker is executing the next job, submitted afterwards to the open pool
C4_Witness ==
    /\ maxWorkers = 1 /\ ~closed /\ ~crashed /\ wg = 1
    /\ \E j \in Jobs :
         /\ delivered[j] = 1 /\ lastRes[j].err = "panic"
         /\ \E k \in Jobs \ {j} : wjob[1] = {k} /\ wpc[1] = "exec"

\* C5: a Submit that finds the closed flag set returns ErrPoolClosed, and a job
\* whose Submit returned ErrPoolClosed is not on the jobs channel, is held by no
\* worker, was never executed and has no result; the refusal is final.
C5_SubmitAfterClose ==
    /\ [][\A j \in Jobs : subPc[j] = "new" /\ closed /\ subPc'[j] # "new" =>
            subPc'[j] = "errClosed" /\ jobsBuf' = jobsBuf /\ wjob' = wjob]_vars
    /\ [][\A j \in Jobs : subPc[j] = "errClosed" => subPc'[j] = "errClosed"]_vars
    /\ [](\A j \in Jobs : subPc[j] = "errClosed" =>
            /\ \A i \in 1..Len(jobsBuf) : jobsBuf[i] # j
            /\ \A w \in Workers : j \notin wjob[w]
            /\ invocations[j] = 0 /\ delivered[j] = 0)

\* a Submit made after Stop had begun was refused while the other job, accepted
\* before, was executed
C5_Witness ==
    \E j \in Jobs :
       /\ closed /\ lcOp = "Stop" /\ subPc[j] = "errClosed" /\ pm.submissionFailures = 0
       /\ \E k \in Jobs \ {j} : invocations[k] = 1

\* the Submit calls that have returned success / ErrPoolClosed
SubmitsOk == {j \in Jobs : subPc[j] = "ok"}
SubmitsRefused == {j \in Jobs : subPc[j] = "errClosed"}

\* C6: every Submit call stamps submitted_at before the enqueue attempt, and
\* `submissions` counts the calls that returned success, `submission_failures`
\* the calls that returned ErrPoolClosed.
C6_OneCounterPerSubmit ==
    /\ \A j \in Jobs : subPc[j] # "new" => jStamped[j]
    /\ pm.submissions = Cardinality(SubmitsOk)
    /\ pm.submissionFailures = Cardinality(SubmitsRefused)

\* C7: under Shutdown the results channel is closed only after the jobs channel
\* was closed and every worker has exited, the metrics channel after the
\* results channel; when the results channel is closed every accepted job was
\* executed and its JobResult is delivered or buffered on the results stream;
\* and no send on a closed channel ever happens.
C7_ShutdownOrder ==
    lcOp = "Shutdown" =>
       /\ ~crashed
       /\ metricsClosed => resultsClosed
       /\ resultsClosed =>
            /\ jobsClosed /\ jobsBuf = <<>> /\ wg = 0
            /\ \A w \in StartedWorkers(maxWorkers) : wpc[w] = "exited"
            /\ \A j \in Jobs : Accepted(j) =>
                  /\ invocations[j] = 1
                  /\ \/ delivered[j] = 1
                     \/ \E i \in 1..Len(resultsBuf) : resultsBuf[i].job = j

\* Shutdown has returned; a job that was still buffered on the jobs channel when
\* it closed has its JobResult buffered on the closed results channel
C7_Witness ==
    /\ lcOp = "Shutdown" /\ lcPc = "done" /\ resultsClosed /\ metricsClosed
    /\ resultsBuf # <<>>
    /\ \A j \in Jobs : subPc[j] = "ok" /\ invocations[j] = 1

\* C8: Stop closes the jobs channel and returns only when every worker has
\* exited, and it never closes the results or the metrics channel; a lifecycle
\* call that finds the closed flag set changes no state of the pool.
C8_StopKeepsResults ==
    /\ [](lcOp = "Stop" =>
            /\ ~resultsClosed /\ ~metricsClosed /\ ~crashed
            /\ lcPc \in {"closeJobs", "wait", "done"}
            /\ lcPc = "done" =>
                 /\ jobsClosed /\ wg = 0
                 /\ \A w \in StartedWorkers(maxWorkers) : wpc[w] = "exited")
    /\ [][lostCalls' # lostCalls =>
            UNCHANGED <<cfgVars, started, closed, wg, pm, chanVars, workerVars, subVars,
                        jCanceled, invocations, lcOp, lcPc, consVars, crashed, timeVars, retryVars, auxVars>>]_vars

\* Stop has returned, a second call was a no-op, and a result is still waiting
\* on the open results channel
C8_Witness ==
    /\ lcOp = "Stop" /\ lcPc = "done" /\ lostCalls = 1
    /\ resultsBuf # <<>> /\ ~resultsClosed

\* C9: after Terminate no worker sends on a closed channel.
C9_TerminateNoSendOnClosed ==
    lcOp = "Terminate" => ~crashed

\* the workers that were started, and the jobs workers are executing
LiveWorkers == {w \in Workers : wpc[w] # "none"}
Executing == {j \in Jobs : \E w \in Workers : j \in wjob[w] /\ wpc[w] \in {"check", "exec", "delay"}}

\* C10: NewPool clamps maxWorkers below 1 to 1, Run starts exactly maxWorkers
\* workers, a worker holds at most one job, a job is held by at most one
\* worker, and at most maxWorkers jobs are executed at the same time.
C10_WorkerBound ==
    /\ maxWorkers = (IF reqWorkers < 1 THEN 1 ELSE reqWorkers)
    /\ Cardinality(LiveWorkers) = (IF started THEN maxWorkers ELSE 0)
    /\ started => wg + Cardinality({w \in Workers : wpc[w] = "exited"}) = maxWorkers
    /\ \A w \in Workers : Cardinality(wjob[w]) <= 1
    /\ \A w, v \in Workers : w # v => wjob[w] \cap wjob[v] = {}
    /\ Cardinality(Executing) <= maxWorkers

\* a pool asked for MaxWorkersBound workers executes that many jobs at once
C10_Witness ==
    /\ started /\ maxWorkers = MaxWorkersBound
    /\ Cardinality(Executing) = MaxWorkersBound
    /\ \A w \in Workers : wpc[w] = "exec"

DeliveredFailed(j) == delivered[j] > 0 /\ invocations[j] > 0 /\ lastRet[j].err \in WorkErrors
DeliveredOk(j) == delivered[j] > 0 /\ invocations[j] > 0 /\ lastRet[j].err = "none"

\* C12: a delivered job that was not canceled and whose last invocation
\* returned an error was invoked exactly MaxRetries + 1 times, its retry count
\* is MaxRetries and its JobResult carries what that last invocation returned;
\* a delivered job whose last invocation succeeded was invoked exactly
\* retry count + 1 times with retry count <= MaxRetries and its JobResult
\* carries that success; and after a success the work function is not invoked
\* again.
C12_ExactAttempts ==
    /\ [](\A j \in Jobs : DeliveredFailed(j) /\ ~jCanceled[j] =>
            /\ invocations[j] = jMaxRetries[j] + 1
            /\ jRetryCount[j] = jMaxRetries[j]
            /\ lastRes[j] = lastRet[j])
    /\ [](\A j \in Jobs : DeliveredOk(j) =>
            /\ invocations[j] = jRetryCount[j] + 1
            /\ jRetryCount[j] <= jMaxRetries[j]
            /\ lastRes[j] = lastRet[j])
    /\ [][\A j \in Jobs : invocations[j] > 0 /\ lastRet[j].err = "none" =>
            invocations'[j] = invocations[j]]_vars

\* a job with one retry failed twice, with the second error as its result, and
\* the other job succeeded on its retry
C12_Witness ==
    \E j \in Jobs :
       /\ DeliveredFailed(j) /\ ~jCanceled[j] /\ jMaxRetries[j] = MaxRetriesBound
       /\ lastRes[j] = RetErrB /\ jRetryCount[j] = MaxRetriesBound
       /\ \E k \in Jobs \ {j} : DeliveredOk(k) /\ invocations[k] = MaxRetriesBound + 1

\* C13: after any sequence of builder calls at most one of the two handles of
\* the job is set, and it is the handle installed by the most recent call.
C13_OneHandle ==
    /\ ~(jobCancel # 0 /\ jobCancelCause # 0)
    /\ builderCalls # <<>> =>
         \/ jobCancel = Len(builderCalls)
         \/ jobCancelCause = Len(builderCalls)

\* C14 as stated: in every delivered JobResult the value is present if and
\* only if the error is absent.
C14_ValueIffNoError ==
    \A j \in Jobs : delivered[j] > 0 => (lastRes[j].val <=> lastRes[j].err = "none")

\* the errors the worker itself produces
WorkerErrors == {"ctx", "panic"}

\* C14 (amended): a delivered JobResult that carries a cancellation error or a
\* recovered panic has no value; every other delivered JobResult carries
\* exactly the value and the error that the last invocation of the work
\* function returned, so it has exactly one of the two only if that invocation
\* returned exactly one of them.
C14_WorkerResultsExclusive ==
    \A j \in Jobs : delivered[j] > 0 =>
       /\ lastRes[j].err \in WorkerErrors => ~lastRes[j].val
       /\ lastRes[j].err \notin WorkerErrors => invocations[j] > 0 /\ lastRes[j] = lastRet[j]

\* one job was delivered with the cancellation error and no value, the other
\* with the value and the error its work function returned together
C14_Witness ==
    \E j \in Jobs :
       /\ delivered[j] = 1 /\ lastRes[j] = CtxErrRes
       /\ \E k \in Jobs \ {j} : delivered[k] = 1 /\ lastRes[k] = RetBoth

\* the positions of the batch whose Submit has returned success / ErrPoolClosed
BatchOk == {i \in 1..Len(batch) : i < batchPos /\ subPc[batch[i]] = "ok"}
BatchRefused == {i \in 1..Len(batch) : i < batchPos /\ subPc[batch[i]] = "errClosed"}

\* C15: SubmitBatch calls Submit for the jobs of the batch in order, one
\* after the other, and goes on after a failure; its counts are the numbers of
\* jobs whose Submit succeeded and failed so far, errs is non-nil exactly when
\* a Submit failed, and when it returns every job of the batch was attempted
\* and submitted + failures is the length of the batch.
C15_BatchCounts ==
    /\ batchSubmitted = Cardinality(BatchOk)
    /\ batchFailures = Cardinality(BatchRefused)
    /\ batchSubmitted + batchFailures = batchPos - 1
    /\ batchErrs <=> batchFailures > 0
    /\ \A i \in 1..Len(batch) :
         /\ subPc[batch[i]] # "new" => i <= batchPos
         /\ i < batchPos => subPc[batch[i]] \in {"ok", "errClosed"}
    /\ BatchReturned =>
         /\ batchSubmitted + batchFailures = Len(batch)
         /\ \A i \in 1..Len(batch) : subPc[batch[i]] \in {"ok", "errClosed"}

\* SubmitBatch went on after its first Submit failed and returned
\* (0, NumJobs, err)
C15_Witness ==
    /\ BatchReturned /\ Len(batch) = NumJobs
    /\ batchSubmitted = 0 /\ batchFailures = NumJobs /\ batchErrs

\* ---- C16 ----
\* C16: a map GetManifests returned while a Load was in progress is the whole
\* catalog as it was before that Load or the whole catalog as it is after it
C16_NoPartialCatalog ==
    \A i \in 1..Len(loadsDone) :
       \A s \in loadsDone[i].seen :
          s = loadsDone[i].before \/ s = loadsDone[i].catalog

\* ---- C17 ----
\* C17: a write of the reader to the map GetManifests gave it leaves the catalog
\* as it was, and a write of Load to the catalog leaves that map as it was
C17_CloneIndependent ==
    [][/\ (\E d \in Dirs, e \in ReaderEntries : ReaderWrite(d, e)) => maps'.catalog = maps.catalog
       /\ ((\E d \in Dirs : LoadVisit(d)) /\ snapRef # "none") => maps'[snapRef] = maps[snapRef]]_vars

\* the reader added a key the catalog does not have, and the catalog has a key
\* the reader's map does not have
C17_Witness ==
    /\ snapRef # "none"
    /\ Keys(maps.clone) \ Keys(maps.catalog) # {}
    /\ Keys(maps.catalog) \ Keys(maps.clone) # {}

\* ---- C18 ----
\* C18: two Loads that saw the same plugins root return catalogs with the same
\* keys and, for every key, the same hash
C18_ReloadSameCatalog ==
    (/\ Len(loadsDone) = MaxLoads
     /\ loadsDone[1].dirs = loadsDone[MaxLoads].dirs
     /\ loadsDone[1].rootOk = loadsDone[MaxLoads].rootOk)
      => /\ Keys(loadsDone[1].catalog) = Keys(loadsDone[MaxLoads].catalog)
         /\ \A d \in Keys(loadsDone[1].catalog) :
               loadsDone[1].catalog[d].hash = loadsDone[MaxLoads].catalog[d].hash

\* two Loads of an unchanged root that holds a well-formed package and a broken one
C18_Witness ==
    /\ Len(loadsDone) = MaxLoads
    /\ loadsDone[1].dirs = loadsDone[MaxLoads].dirs
    /\ loadsDone[1].rootOk /\ loadsDone[MaxLoads].rootOk
    /\ \E d \in Keys(maps.catalog) : maps.catalog[d].manifest # 0
    /\ \E d \in Keys(maps.catalog) : maps.catalog[d].manifest = 0

\* ---- C19 ----
FailingKinds == {"unreadable", "noManifest", "malformed", "noEntrypoint"}

\* C19: a Load that returned has an error under the key of every package that
\* failed to load, and every well-formed package of the root is in its catalog
\* with its manifest
C19_ErrorsDoNotAbort ==
    \A i \in 1..Len(loadsDone) :
       loadsDone[i].rootOk =>
          \A d \in Dirs :
             /\ loadsDone[i].dirs[d].kind \in FailingKinds => d \in DOMAIN loadsDone[i].errs
             /\ loadsDone[i].dirs[d].kind = "valid" =>
                   /\ loadsDone[i].catalog[d].present
                   /\ loadsDone[i].catalog[d].manifest = loadsDone[i].dirs[d].bytes

\* ---- C20 ----
\* C20: neither Load nor a read of the catalog it returned dereferences nil
C20_NeverPanics == ~regPanicked

\* ---- C21 ----
HandshakeValid(h) == h.ProtocolVersion >= 1 /\ h.MagicCookieKey # "" /\ h.MagicCookieValue # ""
FirstHandshakeError(h) ==
    IF ~(h.ProtocolVersion >= 1) THEN "ErrInvalidProtocolVersion"
    ELSE IF h.MagicCookieKey = "" THEN "ErrInvalidMagicCookieKey"
    ELSE "ErrInvalidMagicCookieValue"

\* C21: ToConfig and ToLaunchDetails give a result exactly for a protocol
\* version >= 1 with non-empty cookie key and value; otherwise ToLaunchDetails
\* gives nil and ToConfig gives the error of the first failing field; a
\* configuration that is given carries the manifest's three fields
C21_HandshakeValidated ==
    /\ hcOut.called =>
         /\ ~hcOut.nil <=> HandshakeValid(mf.Handshake)
         /\ HandshakeValid(mf.Handshake) => hcOut.err = "" /\ hcOut.cfg = mf.Handshake
         /\ ~HandshakeValid(mf.Handshake) => hcOut.err = FirstHandshakeError(mf.Handshake)
    /\ ldOut.called =>
         /\ ~ldOut.nil <=> HandshakeValid(mf.Handshake)
         /\ ~ldOut.nil => ldOut.handshakeConfig = mf.Handshake

\* both calls were made on a manifest with two empty cookie fields
C21_Witness ==
    /\ hcOut.called /\ ldOut.called
    /\ mf.Handshake.ProtocolVersion >= 1
    /\ mf.Handshake.MagicCookieKey = "" /\ mf.Handshake.MagicCookieValue = ""
    /\ hcOut.err = "ErrInvalidMagicCookieKey"

\* ---- C22 ----
Elems(seq) == {seq[i] : i \in 1..Len(seq)}

\* C22: the allowed protocols of a launch descriptor are {netrpc} for format
\* "rpc", {netrpc, grpc} for format "grpc" and none for any other format
C22_TransportsByFormat ==
    (ldOut.called /\ ~ldOut.nil) =>
        Elems(ldOut.allowedProtocols) =
            (CASE mf.Format = "rpc" -> {"netrpc"}
               [] mf.Format = "grpc" -> {"netrpc", "grpc"}
               [] OTHER -> {})

\* a descriptor made from a manifest whose format is not in the lookup
C22_Witness ==
    /\ ldOut.called /\ ~ldOut.nil
    /\ mf.Format = "GRPC"
    /\ ldOut.allowedProtocols = <<>>

\* ---- C23 ----
\* C23: LoadSHA256 gives a descriptor exactly when the file can be read and its
\* first word is valid hex for a digest of 32 bytes, whatever follows that
\* word; in every other case it gives ErrInvalidChecksum and no descriptor
C23_OnlySha256Digest ==
    csOut.called =>
       LET words == Fields(csFile.runs)
           good == /\ csFile.readable
                   /\ Len(words) > 0
                   /\ words[1].hex
                   /\ words[1].len = 2 * 32
       IN  /\ ~csOut.nil <=> good
           /\ csOut.nil => csOut.err = "ErrInvalidChecksum"

\* ---- C24 ----
\* C24: a plugin in a failure state changes state only by the re-entry into
\* Unknown, and a plugin becomes Running only from Launching
C24_FailureTerminalRunningFromLaunching ==
    [][\A p \in Plugins :
          /\ (IsFailure(pstate[p].state) /\ pstate'[p] # pstate[p]) =>
                 PluginReset(p) /\ pstate'[p].state = PluginStateUnknown
          /\ (pstate'[p].state = PluginRunning /\ pstate[p].state # PluginRunning) =>
                 pstate[p].state = PluginLaunching]_vars

\* a plugin that was taken out of a failure state is running, another one has
\* failed to launch
C24_Witness ==
    \E p, q \in Plugins :
       /\ pstate[p].recovered /\ pstate[p].state = PluginRunning
       /\ pstate[q].state = PluginFailedToLaunch

\* ---- C25 ----
\* C25: with empty Capabilities every request, of every kind, is denied
C25_EmptyDeniesAll ==
    (decision.asked /\ caps = EmptyCapabilities) => ~decision.allow

\* an egress request was asked about under empty Capabilities
C25_Witness ==
    /\ decision.asked
    /\ caps = EmptyCapabilities
    /\ decision.request.kind = "egress"
    /\ ~decision.allow

\* ---- C26 ----
\* C26: a worker that is about to start an attempt or is waiting out the retry
\* delay, with the context of its job done, does not call the work function:
\* its next step either leaves the delay for the check or returns no value and
\* the context's error; so a job canceled before the worker took it is
\* delivered after zero executions with no value and the context's error
C26_CancelCheckedBeforeAttemptAndInDelay ==
    /\ [][\A w \in Workers :
            (wjob[w] # {} /\ jCanceled[JobOf(w)] /\ wpc[w] \in {"check", "delay"} /\ wpc'[w] # wpc[w]) =>
               /\ invocations'[JobOf(w)] = invocations[JobOf(w)]
               /\ \/ wpc[w] = "delay" /\ wpc'[w] = "check"
                  \/ wpc'[w] = "send" /\ wres'[w] = CtxErrRes]_vars
    /\ [](\A j \in Jobs : (delivered[j] > 0 /\ jCanceled[j] /\ invocations[j] = 0) =>
             lastRes[j] = [val |-> CtxErrRes.val, err |-> "ctx"])

\* one job canceled before it was taken and delivered after zero executions,
\* another canceled after a failed first attempt, with a retry delay, and
\* delivered after that one execution; both with the context's error
C26_Witness ==
    \E j, k \in Jobs :
       /\ jCanceled[j] /\ delivered[j] = 1 /\ invocations[j] = 0 /\ lastRes[j].err = "ctx"
       /\ jCanceled[k] /\ delivered[k] = 1 /\ invocations[k] = 1 /\ lastRes[k].err = "ctx"
       /\ jRetryDelay[k] > 0

\* ---- C27 ----
\* the results put on the results stream so far
PublishedResults == Cardinality({j \in Jobs : delivered[j] > 0}) + Len(resultsBuf)

\* C27: the aggregated successes and failures never exceed the submissions, and
\* once Shutdown has returned they add up to the number of published results
C27_MetricsMatchResults ==
    /\ pm.succeeded + pm.failed <= pm.submissions
    /\ (lcOp = "Shutdown" /\ lcPc = "done") => pm.succeeded + pm.failed = PublishedResults

AnyChannelClosed == jobsClosed \/ resultsClosed \/ metricsClosed

\* C29: whenever the jobs, results or metrics channel is closed the closed flag
\* is true and the stop stamp is set, and the flag was already true in the state
\* from which the first channel was closed
C29_StoppedBeforeChannelsClose ==
    /\ [](AnyChannelClosed => (closed /\ pm.stoppedSet /\ pm.stoppedAt # 0))
    /\ [][(~AnyChannelClosed /\ AnyChannelClosed') => closed]_vars

\* Terminate has closed all three channels of a pool whose flag and stop stamp
\* are set
C29_Witness ==
    /\ lcOp = "Terminate" /\ jobsClosed /\ resultsClosed /\ metricsClosed
    /\ closed /\ pm.stoppedSet

\* ---- C30 ----
\* C30: a directory that lies inside a package directory never gets a key in
\* the catalog or in the LoaderErrors of a Load
C30_OnlyImmediateSubdirectories ==
    \A d \in Dirs :
       fsParent[d] # 0 => (~maps.catalog[d].present /\ d \notin DOMAIN lErrs)

\* ---- C31 ----
\* C31: an entry a consumer holds keeps the manifest and hash it had when the
\* consumer got it, and every walk callback that loads a package directory
\* stores under its key a pointer to a newly allocated entry with what it loaded
C31_ReloadReplacesEntries ==
    /\ [](held.ptr # 0 => heap[held.ptr] = held.was)
    /\ [][(/\ loadPc = "walk" /\ loadPos \in Dirs /\ ~regPanicked'
            /\ fsDirs[loadPos].kind # "absent"
            /\ (loadPos' # loadPos \/ loadPc' = "return"))
           => (/\ catPtr'[loadPos] > Len(heap)
               /\ heap'[catPtr'[loadPos]] = maps'.catalog[loadPos])]_vars

\* a consumer holds the entry a package had after the first Load, and the
\* second Load has given the package another entry with another manifest
C31_Witness ==
    /\ Len(loadsDone) = 2 /\ held.ptr # 0
    /\ \E d \in Dirs :
          /\ held.was = loadsDone[1].catalog[d]
          /\ held.was.manifest # 0
          /\ catPtr[d] # held.ptr
          /\ heap[catPtr[d]].manifest # 0
          /\ heap[catPtr[d]] # held.was

\* ---- C32 ----
\* C32: in what every Load returned, each package directory the walk visited
\* is a catalog key, and one whose LoadManifest failed has an entry with a nil
\* manifest and empty entrypoint and hash, and a LoaderErrors entry
C32_FailedPackagesAreCatalogKeys ==
    \A i \in 1..Len(loadsDone) :
       \A d \in Visited(loadsDone[i].rootOk, loadsDone[i].dirs) :
          /\ loadsDone[i].catalog[d].present
          /\ loadsDone[i].dirs[d].kind \in FailingKinds =>
                /\ loadsDone[i].catalog[d] = NewManifestEntry(0, 0, 0)
                /\ d \in DOMAIN loadsDone[i].errs

\* a Load returned a catalog with a loaded package and a nil-manifest entry for
\* a package without a manifest, which also has a LoaderErrors entry
C32_Witness ==
    \E i \in 1..Len(loadsDone) :
       \E d, k \in Dirs :
          /\ loadsDone[i].dirs[d].kind = "noManifest"
          /\ loadsDone[i].catalog[d] = NewManifestEntry(0, 0, 0)
          /\ d \in DOMAIN loadsDone[i].errs
          /\ loadsDone[i].dirs[k].kind = "valid"
          /\ loadsDone[i].catalog[k].manifest # 0
          /\ k \notin DOMAIN loadsDone[i].errs

\* ---- C33 ----
\* how far the lifecycle call that won the compare-and-swap has come
LcRank(pc) ==
    CASE pc = "idle" -> 0
      [] pc = "closeJobs" -> 1
      [] pc = "wait" -> 2
      [] pc = "closeResults" -> 3
      [] pc = "closeMetrics" -> 4
      [] OTHER -> 5

\* C33: one lifecycle call wins and stays the winner; each channel is closed
\* once, by the winner at its step for that channel; the stop and completion
\* stamps are written once, by the winner, and keep their values; every other
\* call changes nothing but the count of such calls
C33_OnlyWinnerActs ==
    [][/\ lcOp # "none" => lcOp' = lcOp
       /\ lcPc' # lcPc => LcRank(lcPc') > LcRank(lcPc)
       /\ jobsClosed' # jobsClosed => (~jobsClosed /\ lcPc = "closeJobs")
       /\ resultsClosed' # resultsClosed => (~resultsClosed /\ lcPc = "closeResults")
       /\ metricsClosed' # metricsClosed => (~metricsClosed /\ lcPc = "closeMetrics")
       /\ <<pm.stoppedSet, pm.stoppedAt>>' # <<pm.stoppedSet, pm.stoppedAt>> =>
             (~pm.stoppedSet /\ lcPc = "closeJobs")
       /\ <<pm.completedSet, pm.completedAt, pm.durationSet>>'
             # <<pm.completedSet, pm.completedAt, pm.durationSet>> =>
             (~pm.completedSet /\ lcPc \in {"closeJobs", "wait"})
       /\ lostCalls' # lostCalls =>
             UNCHANGED <<cfgVars, started, closed, wg, pm, chanVars, workerVars, subVars,
                         jCanceled, invocations, lcOp, lcPc, consVars, crashed, timeVars,
                         retryVars, auxVars>>]_vars

\* Shutdown won and has returned, another call came later than its stamps and
\* lost, and the stamps are those of Shutdown
C33_Witness ==
    /\ lcOp = "Shutdown" /\ lcPc = "done" /\ lostCalls = 1
    /\ jobsClosed /\ resultsClosed /\ metricsClosed
    /\ pm.stoppedAt # 0 /\ pm.completedAt > pm.stoppedAt /\ now > pm.completedAt

\* ---- C34 ----
\* job j was placed on the jobs channel: it waits in the buffer, or a worker
\* has received it and works on it or is done with it
Placed(j) ==
    \/ \E i \in 1..Len(jobsBuf) : jobsBuf[i] = j
    \/ \E w \in Workers : j \in wjob[w]
    \/ Finished(j)

\* C34: a Submit that has returned nil has placed its job and one that has
\* returned ErrPoolClosed has not; the send of a Submit ends either with the
\* job placed or with ErrPoolClosed, never with a panic, and with ErrPoolClosed
\* when the jobs channel was closed while the Submit was blocked on it
C34_SubmitRaceOutcomes ==
    /\ [](\A j \in Jobs :
            /\ subPc[j] \in {"new", "send", "sent", "ok", "errClosed"}
            /\ subPc[j] \in {"sent", "ok"} => Placed(j)
            /\ subPc[j] = "errClosed" => ~Placed(j))
    /\ [][\A j \in Jobs :
            (subPc[j] = "send" /\ subPc'[j] # "send") =>
               /\ subPc'[j] = IF jobsClosed THEN "errClosed" ELSE "sent"
               /\ crashed' = crashed
               /\ subPc'[j] = "sent" => (~Placed(j) /\ Placed(j)')]_vars

\* a Submit blocked on the unbuffered jobs channel was refused by the recover
\* when the channel was closed under it, another Submit had placed its job
C34_Witness ==
    \E j, k \in Jobs :
       /\ buffer = 0 /\ jobsClosed
       /\ subPc[j] = "errClosed" /\ pm.submissionFailures = 1 /\ ~Placed(j)
       /\ subPc[k] = "ok" /\ Placed(k)

\* ---- C35 ----
\* C35: when the work functions return and the results are consumed, a Shutdown
\* that has begun returns with every worker exited; and neither Shutdown nor
\* Stop is past its wait while a worker still has a result to send
C35_ShutdownReturnsAfterWorkers ==
    /\ (lcOp = "Shutdown") ~>
          (lcPc = "done" /\ \A w \in StartedWorkers(maxWorkers) : wpc[w] = "exited")
    /\ []((\E w \in Workers : wpc[w] = "send") =>
            ~(lcOp \in {"Shutdown", "Stop"} /\ lcPc \in {"closeResults", "closeMetrics", "done"}))

\* Shutdown is waiting for a worker that holds a finished job while the
\* results buffer is full
C35_Witness ==
    /\ lcOp = "Shutdown" /\ lcPc = "wait" /\ buffer > 0
    /\ Len(resultsBuf) = buffer
    /\ \E w \in Workers : wpc[w] = "send"

\* ---- C36 ----
\* C36: once Stop has won, Stop stays the winner and the results and metrics
\* channels are open in every later state, whatever is called afterwards
C36_StopLeavesStreamsOpen ==
    [](lcOp = "Stop" => [](lcOp = "Stop" /\ ~resultsClosed /\ ~metricsClosed))

\* Stop has returned, a later lifecycle call was made, the consumer has
\* received every result, and the results channel is still open
C36_Witness ==
    /\ lcOp = "Stop" /\ lcPc = "done" /\ lostCalls = 1
    /\ resultsBuf = <<>> /\ ~resultsClosed /\ ~metricsClosed
    /\ \A j \in Jobs : delivered[j] = 1

\* ---- C37 ----
\* C37: the jobs placed and not yet taken by a worker never number more than
\* the buffer argument (none for an argument below 1); a Submit places its job
\* only into a free slot or, without a buffer, into the hands of a worker that
\* receives it in the same step
C37_BackPressure ==
    /\ [](Len(jobsBuf) <= (IF reqBuffer < 1 THEN 0 ELSE reqBuffer))
    /\ [][\A j \in Jobs :
            (subPc[j] = "send" /\ subPc'[j] = "sent") =>
               IF reqBuffer < 1
                 THEN /\ jobsBuf' = <<>>
                      /\ \E w \in Workers : wpc[w] = "select" /\ j \notin wjob[w] /\ j \in wjob'[w]
                 ELSE Len(jobsBuf) < reqBuffer /\ jobsBuf' = Append(jobsBuf, j)]_vars

\* a pool made with a negative buffer argument handed a job straight to its
\* worker while the other Submit is blocked
C37_Witness ==
    /\ reqBuffer < 0 /\ jobsBuf = <<>> /\ ~jobsClosed
    /\ \E j, k \in Jobs :
          /\ subPc[j] = "ok" /\ \E w \in Workers : j \in wjob[w]
          /\ subPc[k] = "send"

\* ---- C38 ----
\* C38: no step takes a key out of the loader's catalog, and the catalog every
\* Load returns has the keys of the catalogs the Loads before it returned
C38_CatalogKeysOnlyGrow ==
    /\ [][Keys(maps.catalog) \subseteq Keys(maps.catalog')]_vars
    /\ [](\A i, k \in 1..Len(loadsDone) :
            i < k => Keys(loadsDone[i].catalog) \subseteq Keys(loadsDone[k].catalog))

\* a package loaded by the first Load was removed from the plugins root, and
\* the catalog the second Load returned still has its entry
C38_Witness ==
    /\ Len(loadsDone) = 2
    /\ \E d \in Dirs :
          /\ loadsDone[1].dirs[d].kind = "valid"
          /\ loadsDone[2].rootOk /\ loadsDone[2].dirs[d].kind = "absent"
          /\ loadsDone[2].catalog[d] = loadsDone[1].catalog[d]
          /\ loadsDone[2].catalog[d].manifest # 0

====
